---- MODULE Spec2Model ----
(***************************************************************************)
(* Rating / potential computation of the football talent identification   *)
(* system.                                                                 *)
(*                                                                         *)
(*   - the three-stage progression engine of model/feature_engineering.py *)
(*     (current rating -> next-season rating -> peak potential, followed  *)
(*     by the validation / repair pass), with the helpers of              *)
(*     model/config.py;                                                    *)
(*   - the hybrid potential calculators of backend/calculator.py          *)
(*     (PotentialCalculator) and model/performance_calculator_fixed.py    *)
(*     (HybridPerformanceCalculator).                                      *)
(*                                                                         *)
(* Python floats are modelled in fixed point.  Progression ratings are    *)
(* integers in units of 1/RS rating point; scores of the calculators are  *)
(* integers in units of 1/SS point.  A division truncates to that         *)
(* resolution (Div below rounds toward minus infinity).                   *)
(***************************************************************************)
EXTENDS Integers, Sequences, FiniteSets, TLC

VARIABLES
    df,        \* progression engine: the feature table, a sequence of rows
    stage,     \* progression engine: the next step of engineer_all_features
    passes,    \* number of times _validate_and_fix_progression has run on df
    players,   \* calculators: the table of player-season records to score
    calculator,\* calculators: the class of the calculator object
    mlmodel,   \* calculators: which of self.model / self.scaler were loaded
    predictor, \* calculators: what the loaded artefacts do on each record
    scores,    \* calculators: the bundles computed so far, in table order
    warnings,  \* calculators: rows for which "ML prediction failed" was printed
    batch,     \* calculators: "running", "saved" or "aborted" (bulk recalculation)
    written,   \* calculators: the bundles written back by the bulk recalculation
    db_players,\* database: the rows of the players table, by id
    response,  \* database: the status of the last recalculate request
    target_player,   \* similarity: the player to find similar players for
    all_players,     \* similarity: the candidate pool handed to the function
    top_n,           \* similarity: the number of players asked for
    similar_players, \* similarity: the list returned
    request          \* similarity: "pending" before the call, "done" after it

dbVars == <<db_players, response>>
analyticsVars == <<target_player, all_players, top_n, similar_players, request>>

vars == <<df, stage, passes, players, calculator, mlmodel, predictor, scores,
          warnings, batch, written, db_players, response, target_player, all_players,
          top_n, similar_players, request>>

(***************************************************************************)
(* Bounds of the model.                                                    *)
(***************************************************************************)
NumRows == 2
MaxPasses == 2

(***************************************************************************)
(* Fixed-point resolution.                                                 *)
(***************************************************************************)
RS == 100 * 100
SS == 10 * 100

Min2(a, b) == IF a < b THEN a ELSE b
Max2(a, b) == IF a > b THEN a ELSE b
Clip(x, lo, hi) == IF x < lo THEN lo ELSE IF x > hi THEN hi ELSE x
ClipUpper(x, hi) == IF x > hi THEN hi ELSE x
Div(a, b) == a \div b

\* np.nan in a rating column
NaN == -1
IsNaN(x) == x = NaN

(***************************************************************************)
(* model/config.py                                                         *)
(***************************************************************************)
\* CURRENT_RATING_SCALE["min"], ["max"]
CurrentRatingMin == 20
CurrentRatingMax == 75
\* PEAK_POTENTIAL_SCALE["max"]
PeakPotentialMax == 94
\* NEXT_SEASON_SCALE
NextMinGrowth == 2
NextAvgGrowth == 5
NextMaxGrowth == 10
\* YOUTH_PROGRESSION_RULES
min_next_season_growth == 2
min_peak_growth_from_current == 8
typical_peak_growth_from_current == 18
max_peak_growth_from_current == 35
min_peak_growth_from_next == 5
max_next_season_rating == 85
\* MIN_MATCHES_THRESHOLD, LOW_MATCH_CONFIDENCE_PENALTY (x10)
MIN_MATCHES_THRESHOLD == 5
LOW_MATCH_CONFIDENCE_PENALTY10 == 5

\* SAMPLE_SIZE_PENALTIES, factor x1000, keyed by whole matches
SAMPLE_SIZE_PENALTIES == (1 :> 150) @@ (2 :> 250) @@ (3 :> 400) @@ (4 :> 600) @@ (5 :> 750)

\* get_sample_size_penalty(matches); matches in tenths of a match, result x1000
get_sample_size_penalty(mp10) ==
    IF mp10 >= 60 THEN 1000
    ELSE IF mp10 % 10 = 0 /\ (mp10 \div 10) \in DOMAIN SAMPLE_SIZE_PENALTIES
         THEN SAMPLE_SIZE_PENALTIES[mp10 \div 10]
         ELSE 150

\* is_exceptional_performance(goals, matches, minutes, assists)
\* goals in tenths, matches in tenths, thresholds 1.5 / 60 / 2.0
is_exceptional_performance(gls10, mp10, minutes, ast) ==
    IF mp10 = 0 \/ minutes = 0 THEN FALSE
    ELSE LET c1 == IF gls10 * 10 >= 15 * mp10 THEN 1 ELSE 0
             c2 == IF minutes * 10 <= 60 * Max2(gls10, 10) THEN 1 ELSE 0
             c3 == IF (gls10 + 10 * ast) * 10 >= 20 * mp10 THEN 1 ELSE 0
         IN c1 + c2 + c3 >= 2

\* AGE_GROWTH_MODIFIERS x100
AGE_GROWTH_MODIFIERS ==
    (15 :> 140) @@ (16 :> 125) @@ (17 :> 115) @@ (18 :> 100) @@
    (19 :> 85) @@ (20 :> 70) @@ (21 :> 50)

\* get_age_growth_modifier(age), x100
get_age_growth_modifier(age) ==
    IF age <= 15 THEN AGE_GROWTH_MODIFIERS[15]
    ELSE IF age >= 21 THEN AGE_GROWTH_MODIFIERS[21]
    ELSE AGE_GROWTH_MODIFIERS[age]

\* get_performance_growth_modifier(current_rating, rating_distribution), x100
\* percentile = (rating_distribution <= current_rating).mean() * 100
get_performance_growth_modifier(current, dist) ==
    LET n == Len(dist)
        cnt == Cardinality({i \in 1..n : dist[i] <= current})
    IN IF cnt * 100 >= 95 * n THEN 150
       ELSE IF cnt * 100 >= 75 * n THEN 125
       ELSE IF cnt * 100 >= 25 * n THEN 100
       ELSE 75

\* normalize_rating_to_scale(raw_rating, scale_min, scale_max, cap)
\* raw_rating in 1/RS of a 0..100 rating; scale values in whole points
normalize_rating_to_scale(raw, scale_min, scale_max, cap) ==
    LET r == Clip(raw, 0, 100 * RS)
        normalized == scale_min * RS + Div(r * (scale_max - scale_min), 100)
    IN Min2(normalized, cap * RS)

(***************************************************************************)
(* model/feature_engineering.py : FeatureEngineer                         *)
(*                                                                         *)
(* A row of the feature table.  Gls10 is Performance_Gls in tenths, MP10  *)
(* is Playing Time_MP_raw in tenths of a match, other100 is the weighted  *)
(* sum (x100) of the CURRENT_RATING_WEIGHTS columns other than            *)
(* Performance_Gls.  Ratings are in 1/RS points, modifiers x100, the      *)
(* sample size penalty x1000.                                              *)
(***************************************************************************)
PlayerIds == {1, 2}
SeasonIds == {1, 2}
BornValues == {2004, 2010}
OtherValues == {0, 500}
\* (Gls10, MP10, Min) of a row
PlayingValues ==
    {<<0, 60, 540>>, <<0, 20, 180>>, <<40, 20, 180>>, <<0, 40, 360>>, <<0, 45, 405>>}

InputRow(p, s, b, o, pv) ==
    [Player |-> p, Season |-> s, Born_std |-> b, Performance_Gls |-> pv[1],
     Performance_Ast |-> 0, MP_raw |-> pv[2], Min_raw |-> pv[3], other100 |-> o,
     sample_size_penalty |-> 1000, is_exceptional |-> FALSE,
     current_rating |-> NaN, Age_std |-> 0,
     age_growth_modifier |-> 0, performance_growth_modifier |-> 0,
     next_season_rating |-> NaN, peak_potential |-> NaN]

InputRows ==
    {InputRow(p, s, b, o, pv) : p \in PlayerIds, s \in SeasonIds, b \in BornValues,
                                o \in OtherValues, pv \in PlayingValues}

DistinctKeys(d) ==
    \A i, j \in 1..Len(d) :
        (d[i].Player = d[j].Player /\ d[i].Season = d[j].Season) => i = j

\* df.sort_values(['Player', 'Season']).reset_index(drop=True)
KeyLess(a, b) == a.Player < b.Player \/ (a.Player = b.Player /\ a.Season < b.Season)

RECURSIVE InsertRow(_, _)
InsertRow(r, s) ==
    IF s = <<>> THEN <<r>>
    ELSE IF ~KeyLess(Head(s), r) THEN <<r>> \o s
    ELSE <<Head(s)>> \o InsertRow(r, Tail(s))

RECURSIVE sort_values(_)
sort_values(d) == IF d = <<>> THEN <<>> ELSE InsertRow(Head(d), sort_values(Tail(d)))

MapRows(d, F(_)) == [i \in 1..Len(d) |-> F(d[i])]

\* _add_sample_size_penalties
add_sample_size_penalties(d) ==
    LET F(r) ==
          LET pen == get_sample_size_penalty(r.MP_raw)
              exc == is_exceptional_performance(r.Performance_Gls, r.MP_raw,
                                                r.Min_raw, r.Performance_Ast)
          IN [r EXCEPT !.is_exceptional = exc,
                       !.sample_size_penalty = IF exc THEN Div(pen * 5, 10) + 500 ELSE pen]
    IN MapRows(d, F)

\* _apply_confidence_penalty (the Performance_Gls column)
apply_confidence_penalty(d) ==
    LET F(r) ==
          IF r.MP_raw < MIN_MATCHES_THRESHOLD * 10
          THEN [r EXCEPT !.Performance_Gls =
                             Div(r.Performance_Gls * LOW_MATCH_CONFIDENCE_PENALTY10, 10)]
          ELSE r
    IN MapRows(d, F)

\* raw weighted rating x100: Performance_Gls * 1.2 + the other weighted columns
RawRating100(r) == r.Performance_Gls * 12 + r.other100

SeqMax(f, n) == CHOOSE m \in {f[i] : i \in 1..n} : \A i \in 1..n : f[i] <= m
SeqMin(f, n) == CHOOSE m \in {f[i] : i \in 1..n} : \A i \in 1..n : f[i] >= m

\* _calculate_current_rating_normalized
calculate_current_rating_normalized(d) ==
    LET n == Len(d)
        raw == [i \in 1..n |-> RawRating100(d[i])]
        mx == SeqMax(raw, n)
        mn == SeqMin(raw, n)
        raw0to100(i) == IF mx > mn THEN Div((raw[i] - mn) * 100 * RS, mx - mn)
                        ELSE 50 * RS
        F(i) ==
          LET normalized == normalize_rating_to_scale(raw0to100(i), CurrentRatingMin,
                                                      CurrentRatingMax, CurrentRatingMax)
              penalised == Div(normalized * d[i].sample_size_penalty, 1000)
          IN Clip(penalised, CurrentRatingMin * RS, CurrentRatingMax * RS)
    IN [i \in 1..n |-> [d[i] EXCEPT !.current_rating = F(i)]]

\* _add_age_bonus (the Age_std column): 2025 - Born_std, clipped to 14..22
add_age_bonus(d) ==
    LET F(r) == [r EXCEPT !.Age_std = Clip(2025 - r.Born_std, 14, 22)]
    IN MapRows(d, F)

\* _add_progression_features (the sort; the growth columns feed no rating)
add_progression_features(d) == sort_values(d)

\* _add_youth_progression_modifiers
add_youth_progression_modifiers(d) ==
    LET rating_distribution == [i \in 1..Len(d) |-> d[i].current_rating]
        F(r) == [r EXCEPT !.age_growth_modifier = get_age_growth_modifier(r.Age_std),
                          !.performance_growth_modifier =
                              get_performance_growth_modifier(r.current_rating,
                                                              rating_distribution)]
    IN MapRows(d, F)

\* rows of the same player, and the last row of each player's group
GroupOf(d, i) == {j \in 1..Len(d) : d[j].Player = d[i].Player}
IsLastOfPlayer(d, i) == \A j \in GroupOf(d, i) : j <= i

\* _calculate_next_season_constrained
calculate_next_season_constrained(d0) ==
    LET d == sort_values(d0)
        loopValue(i) ==
          LET r == d[i]
              expected_growth == NextAvgGrowth * r.age_growth_modifier
                                     * r.performance_growth_modifier
              min_growth == NextMinGrowth * r.age_growth_modifier * 100
              max_growth == NextMaxGrowth * r.age_growth_modifier * 100
              final_growth == Clip(expected_growth, min_growth, max_growth)
          IN Min2(r.current_rating + final_growth, max_next_season_rating * RS)
        afterLoop(i) ==
          IF Cardinality(GroupOf(d, i)) >= 2 /\ ~IsLastOfPlayer(d, i)
          THEN loopValue(i) ELSE NaN
        projected(i) ==
          ClipUpper(d[i].current_rating
                      + d[i].age_growth_modifier * d[i].performance_growth_modifier
                          * NextAvgGrowth,
                    max_next_season_rating * RS)
        afterLast(i) ==
          IF IsLastOfPlayer(d, i) /\ IsNaN(afterLoop(i)) THEN projected(i) ELSE afterLoop(i)
        filled(i) ==
          IF IsNaN(afterLast(i)) THEN d[i].current_rating + NextMinGrowth * RS
          ELSE afterLast(i)
    IN [i \in 1..Len(d) |-> [d[i] EXCEPT !.next_season_rating = filled(i)]]

\* _calculate_peak_potential_constrained
calculate_peak_potential_constrained(d0) ==
    LET d == sort_values(d0)
        F(r) ==
          LET expected_peak_growth == typical_peak_growth_from_current
                                        * r.age_growth_modifier * r.performance_growth_modifier
              min_peak_growth == min_peak_growth_from_current * r.age_growth_modifier * 100
              max_peak_growth == max_peak_growth_from_current * r.age_growth_modifier * 100
              final_peak_growth == Clip(expected_peak_growth, min_peak_growth, max_peak_growth)
              projected_peak == Max2(r.current_rating + final_peak_growth,
                                     r.next_season_rating + min_peak_growth_from_next * RS)
          IN [r EXCEPT !.peak_potential = Min2(projected_peak, PeakPotentialMax * RS)]
    IN MapRows(d, F)

\* The repair pass with one slip: the raised next_season_rating is computed
\* from the next_season_rating column instead of the current_rating column.
validate_and_fix_progression_wrong_column(d) ==
    LET F(r) ==
          LET cur == ClipUpper(r.current_rating, CurrentRatingMax * RS)
              nxt1 == IF r.next_season_rating < cur + min_next_season_growth * RS
                      THEN r.next_season_rating + min_next_season_growth * RS
                      ELSE r.next_season_rating
              nxt == ClipUpper(nxt1, max_next_season_rating * RS)
              pk1 == IF r.peak_potential < nxt + min_peak_growth_from_next * RS
                     THEN nxt + min_peak_growth_from_next * RS
                     ELSE r.peak_potential
              pk2 == IF pk1 < cur + min_peak_growth_from_current * RS
                     THEN cur + min_peak_growth_from_current * RS
                     ELSE pk1
          IN [r EXCEPT !.current_rating = cur,
                       !.next_season_rating = nxt,
                       !.peak_potential = ClipUpper(pk2, PeakPotentialMax * RS)]
    IN MapRows(d, F)

\* The repair pass with the final clips of next_season_rating and
\* peak_potential left out.
validate_and_fix_progression_no_caps(d) ==
    LET F(r) ==
          LET cur == ClipUpper(r.current_rating, CurrentRatingMax * RS)
              nxt == IF r.next_season_rating < cur + min_next_season_growth * RS
                     THEN cur + min_next_season_growth * RS
                     ELSE r.next_season_rating
              pk1 == IF r.peak_potential < nxt + min_peak_growth_from_next * RS
                     THEN nxt + min_peak_growth_from_next * RS
                     ELSE r.peak_potential
              pk2 == IF pk1 < cur + min_peak_growth_from_current * RS
                     THEN cur + min_peak_growth_from_current * RS
                     ELSE pk1
          IN [r EXCEPT !.current_rating = cur,
                       !.next_season_rating = nxt,
                       !.peak_potential = pk2]
    IN MapRows(d, F)

\* _validate_and_fix_progression
validate_and_fix_progression(d) ==
    LET F(r) ==
          LET cur == ClipUpper(r.current_rating, CurrentRatingMax * RS)
              nxt1 == IF r.next_season_rating < cur + min_next_season_growth * RS
                      THEN cur + min_next_season_growth * RS
                      ELSE r.next_season_rating
              nxt == ClipUpper(nxt1, max_next_season_rating * RS)
              pk1 == IF r.peak_potential < nxt + min_peak_growth_from_next * RS
                     THEN nxt + min_peak_growth_from_next * RS
                     ELSE r.peak_potential
              pk2 == IF pk1 < cur + min_peak_growth_from_current * RS
                     THEN cur + min_peak_growth_from_current * RS
                     ELSE pk1
          IN [r EXCEPT !.current_rating = cur,
                       !.next_season_rating = nxt,
                       !.peak_potential = ClipUpper(pk2, PeakPotentialMax * RS)]
    IN MapRows(d, F)

(***************************************************************************)
(* The progression engine as a state machine: engineer_all_features runs  *)
(* its steps in order over df; a table handed directly to                 *)
(* _validate_and_fix_progression (stage "standalone") carries arbitrary   *)
(* rating triples and may be validated again.                             *)
(***************************************************************************)
\* rating values (whole points) of a table handed to the repair pass directly
TripleValues == {20, 50, 70, 72, 78, 80, 84, 88, 92, 96}

StandaloneRow(c, n, p) ==
    [InputRow(1, 1, 2007, 0, <<0, 60, 540>>) EXCEPT
        !.current_rating = c * RS, !.next_season_rating = n * RS,
        !.peak_potential = p * RS]

IdleDb ==
    /\ db_players = <<>>
    /\ response = "none"

IdleAnalytics ==
    /\ target_player = <<>>
    /\ all_players = <<>>
    /\ top_n = 0
    /\ similar_players = <<>>
    /\ request = "none"

IdleScore ==
    /\ players = <<>>
    /\ calculator = "none"
    /\ mlmodel = "absent"
    /\ predictor = <<>>
    /\ scores = <<>>
    /\ warnings = {}
    /\ batch = "none"
    /\ written = <<>>

InitPipeline ==
    /\ df \in {d \in [1..NumRows -> InputRows] : DistinctKeys(d)}
    /\ stage = "penalties"
    /\ passes = 0

InitStandalone ==
    /\ df \in {<<StandaloneRow(c, n, p)>> : c \in TripleValues, n \in TripleValues,
                                            p \in TripleValues}
    /\ stage = "standalone"
    /\ passes = 0

InitProg == (InitPipeline \/ InitStandalone) /\ IdleScore /\ IdleDb /\ IdleAnalytics

AddSampleSizePenalties ==
    /\ stage = "penalties"
    /\ df' = add_sample_size_penalties(df)
    /\ stage' = "confidence"
    /\ UNCHANGED <<passes, players, calculator, mlmodel, predictor, scores,
                 warnings, batch, written, dbVars, analyticsVars>>

ApplyConfidencePenalty ==
    /\ stage = "confidence"
    /\ df' = apply_confidence_penalty(df)
    /\ stage' = "current"
    /\ UNCHANGED <<passes, players, calculator, mlmodel, predictor, scores,
                 warnings, batch, written, dbVars, analyticsVars>>

CalculateCurrentRatingNormalized ==
    /\ stage = "current"
    /\ df' = calculate_current_rating_normalized(df)
    /\ stage' = "age"
    /\ UNCHANGED <<passes, players, calculator, mlmodel, predictor, scores,
                 warnings, batch, written, dbVars, analyticsVars>>

AddAgeBonus ==
    /\ stage = "age"
    /\ df' = add_age_bonus(df)
    /\ stage' = "progression"
    /\ UNCHANGED <<passes, players, calculator, mlmodel, predictor, scores,
                 warnings, batch, written, dbVars, analyticsVars>>

AddProgressionFeatures ==
    /\ stage = "progression"
    /\ df' = add_progression_features(df)
    /\ stage' = "modifiers"
    /\ UNCHANGED <<passes, players, calculator, mlmodel, predictor, scores,
                 warnings, batch, written, dbVars, analyticsVars>>

AddYouthProgressionModifiers ==
    /\ stage = "modifiers"
    /\ df' = add_youth_progression_modifiers(df)
    /\ stage' = "next"
    /\ UNCHANGED <<passes, players, calculator, mlmodel, predictor, scores,
                 warnings, batch, written, dbVars, analyticsVars>>

CalculateNextSeasonConstrained ==
    /\ stage = "next"
    /\ df' = calculate_next_season_constrained(df)
    /\ stage' = "peak"
    /\ UNCHANGED <<passes, players, calculator, mlmodel, predictor, scores,
                 warnings, batch, written, dbVars, analyticsVars>>

CalculatePeakPotentialConstrained ==
    /\ stage = "peak"
    /\ df' = calculate_peak_potential_constrained(df)
    /\ stage' = "validate"
    /\ UNCHANGED <<passes, players, calculator, mlmodel, predictor, scores,
                 warnings, batch, written, dbVars, analyticsVars>>

ValidateAndFixProgression ==
    /\ stage \in {"validate", "standalone"}
    /\ passes < MaxPasses
    /\ df' = validate_and_fix_progression(df)
    /\ passes' = passes + 1
    /\ stage' = IF stage = "validate" THEN "done" ELSE stage
    /\ UNCHANGED <<players, calculator, mlmodel, predictor, scores,
                 warnings, batch, written, dbVars, analyticsVars>>

NextProg ==
    \/ AddSampleSizePenalties
    \/ ApplyConfidencePenalty
    \/ CalculateCurrentRatingNormalized
    \/ AddAgeBonus
    \/ AddProgressionFeatures
    \/ AddYouthProgressionModifiers
    \/ CalculateNextSeasonConstrained
    \/ CalculatePeakPotentialConstrained
    \/ ValidateAndFixProgression

SpecProg == InitProg /\ [][NextProg]_vars

Validated == passes >= 1

(***************************************************************************)
(* C1: after _validate_and_fix_progression has run, every row satisfies   *)
(* current_rating <= next_season_rating <= peak_potential, whatever the   *)
(* three values were before the repair.                                    *)
(***************************************************************************)
ProgressionOrdered ==
    Validated =>
        \A i \in 1..Len(df) :
            /\ df[i].current_rating <= df[i].next_season_rating
            /\ df[i].next_season_rating <= df[i].peak_potential

\* a repaired adversarial row: current 70, next 50, peak 20 before the pass
ProgressionOrderedWitness ==
    /\ stage = "standalone"
    /\ passes = 1
    /\ \E i \in 1..Len(df) :
          /\ df[i].current_rating = 70 * RS
          /\ df[i].next_season_rating = 72 * RS
          /\ df[i].peak_potential = 78 * RS

(***************************************************************************)
(* C2: the repair pass is idempotent: a pass applied to a table that a    *)
(* pass has already repaired changes no rating of any row.                *)
(***************************************************************************)
RepairIdempotent ==
    [][Validated =>
          /\ Len(df') = Len(df)
          /\ \A i \in 1..Len(df) :
                /\ df'[i].current_rating = df[i].current_rating
                /\ df'[i].next_season_rating = df[i].next_season_rating
                /\ df'[i].peak_potential = df[i].peak_potential]_vars

\* the pass has run twice on a row it had to repair
RepairIdempotentWitness ==
    /\ stage = "standalone"
    /\ passes = 2
    /\ \E i \in 1..Len(df) :
          /\ df[i].current_rating = 75 * RS
          /\ df[i].next_season_rating = 77 * RS
          /\ df[i].peak_potential = 83 * RS

(***************************************************************************)
(* C3: every row produced by engineer_all_features has                    *)
(* 20 <= current_rating <= 70.                                             *)
(***************************************************************************)
CurrentRatingWithin20To70 ==
    stage = "done" =>
        \A i \in 1..Len(df) :
            /\ 20 * RS <= df[i].current_rating
            /\ df[i].current_rating <= 70 * RS

(***************************************************************************)
(* C4: every row that has passed the validation of the progression        *)
(* pipeline has next_season_rating <= 85 and peak_potential <= 94.        *)
(***************************************************************************)
AbsoluteCeilings ==
    Validated =>
        \A i \in 1..Len(df) :
            /\ df[i].next_season_rating <= 85 * RS
            /\ df[i].peak_potential <= 94 * RS

\* a pipeline row on which both ceilings bite
AbsoluteCeilingsWitness ==
    /\ stage = "done"
    /\ \E i \in 1..Len(df) :
          /\ df[i].current_rating = 75 * RS
          /\ df[i].next_season_rating = 85 * RS
          /\ df[i].peak_potential = 94 * RS

(***************************************************************************)
(* backend/calculator.py : PotentialCalculator                            *)
(*                                                                         *)
(* A player record carries: position, age, matches, minutes, goals,       *)
(* assists, the per-90 rates in thousandths (goals_per_90, xg_per_90,     *)
(* xa_per_90), save_percentage and clean_sheet_percentage in whole        *)
(* percent and goals_against_per_90 in hundredths.  Scores are in 1/SS    *)
(* point, confidence weights x100 (backend) or x10000 (model/).           *)
(***************************************************************************)
\* None, the value of a NULL column, in a numeric field and in position
Null == -1000
NullPosition == "None"

\* player_data.get(key, default): the default only when the key is absent
Get(player_data, key, default) ==
    IF key \in DOMAIN player_data THEN player_data[key] ELSE default

\* x or default
OrDefault(x, default) == IF x = 0 \/ x = Null THEN default ELSE x

\* self.elite_benchmarks: per-90 values in thousandths, ga90 in hundredths
elite_benchmarks ==
    [FW |-> [goals |-> 650, xg |-> 600, xa |-> 250, full_season_matches |-> 22],
     MF |-> [goals |-> 250, xg |-> 220, xa |-> 300, full_season_matches |-> 24],
     DF |-> [goals |-> 100, xg |-> 80, xa |-> 150, full_season_matches |-> 24],
     GK |-> [save_pct |-> 78, cs_pct |-> 35, ga90 |-> 80, full_season_matches |-> 22]]

\* self.performance_caps
performance_caps == [FW |-> 85, MF |-> 83, DF |-> 80, GK |-> 82]

\* round(x, 1) of a score in 1/SS point
Round1(x) == Div(x + Div(SS, 20), Div(SS, 10)) * Div(SS, 10)

\* min(stat / benchmark, cap_ratio) * weight, in 1/SS point; cap_ratio x10
RatioScore(stat, benchmark, cap_ratio10, weight) ==
    Div(Min2(Div(stat * 10000, benchmark), cap_ratio10 * 1000) * weight, 10)

\* _calculate_volume_bonus(goals, position), whole points
calculate_volume_bonus(goals, position) ==
    IF position = "FW" THEN
        IF goals >= 25 THEN 8 ELSE IF goals >= 20 THEN 6 ELSE IF goals >= 15 THEN 4
        ELSE IF goals >= 10 THEN 2 ELSE IF goals >= 5 THEN 1 ELSE 0
    ELSE IF position = "MF" THEN
        IF goals >= 12 THEN 6 ELSE IF goals >= 8 THEN 4 ELSE IF goals >= 5 THEN 2 ELSE 0
    ELSE IF position = "DF" THEN
        IF goals >= 8 THEN 8 ELSE IF goals >= 5 THEN 5 ELSE IF goals >= 3 THEN 3 ELSE 0
    ELSE 0

\* _calculate_efficiency_bonus(goals_per_90, position), whole points
calculate_efficiency_bonus(goals_per_90, position) ==
    IF position = "FW" THEN
        IF goals_per_90 > 1000 THEN 5 ELSE IF goals_per_90 > 800 THEN 3
        ELSE IF goals_per_90 > 600 THEN 1 ELSE 0
    ELSE IF position = "MF" THEN
        IF goals_per_90 > 400 THEN 4 ELSE IF goals_per_90 > 300 THEN 2 ELSE 0
    ELSE IF position = "DF" THEN
        IF goals_per_90 > 200 THEN 5 ELSE IF goals_per_90 > 150 THEN 3 ELSE 0
    ELSE 0

\* the weighted ratio sum of an outfield position, in 1/SS point
OutfieldRatioSum(position, goals_per_90, xg_per_90, xa_per_90) ==
    LET bench == IF position \in {"FW", "MF", "DF"} THEN elite_benchmarks[position]
                 ELSE elite_benchmarks["FW"]
    IN IF position = "FW" THEN
           RatioScore(goals_per_90, bench.goals, 15, 45)
             + RatioScore(xg_per_90, bench.xg, 15, 35)
             + RatioScore(xa_per_90, bench.xa, 15, 20)
       ELSE IF position = "MF" THEN
           RatioScore(goals_per_90, bench.goals, 15, 35)
             + RatioScore(xg_per_90, bench.xg, 15, 25)
             + RatioScore(xa_per_90, bench.xa, 15, 40)
       ELSE
           RatioScore(goals_per_90, bench.goals, 20, 30)
             + RatioScore(xg_per_90, bench.xg, 15, 25)
             + RatioScore(xa_per_90, bench.xa, 15, 45)

\* The outfield score returned without the position cap.
PotentialCalculator_calculate_outfield_performance_uncapped(player_data) ==
    LET position == Get(player_data, "position", "FW")
        goals_per_90 == OrDefault(Get(player_data, "goals_per_90", 0), 0)
        xg_per_90 == OrDefault(Get(player_data, "xg_per_90", 0), 0)
        xa_per_90 == OrDefault(Get(player_data, "xa_per_90", 0), 0)
        goals == OrDefault(Get(player_data, "goals", 0), 0)
        base_score == OutfieldRatioSum(position, goals_per_90, xg_per_90, xa_per_90)
                        + calculate_volume_bonus(goals, position) * SS
                        + calculate_efficiency_bonus(goals_per_90, position) * SS
    IN base_score

\* PotentialCalculator._calculate_outfield_performance
PotentialCalculator_calculate_outfield_performance(player_data) ==
    LET position == Get(player_data, "position", "FW")
        goals_per_90 == OrDefault(Get(player_data, "goals_per_90", 0), 0)
        xg_per_90 == OrDefault(Get(player_data, "xg_per_90", 0), 0)
        xa_per_90 == OrDefault(Get(player_data, "xa_per_90", 0), 0)
        goals == OrDefault(Get(player_data, "goals", 0), 0)
        base_score == OutfieldRatioSum(position, goals_per_90, xg_per_90, xa_per_90)
                        + calculate_volume_bonus(goals, position) * SS
                        + calculate_efficiency_bonus(goals_per_90, position) * SS
        position_cap == IF position \in DOMAIN performance_caps
                        THEN performance_caps[position] ELSE 85
    IN Min2(base_score, position_cap * SS)

\* The goalkeeper components with the save component measured from 70.
GkComponentSum_save_from_70(save_pct, cs_pct, ga90) ==
    LET bench == elite_benchmarks["GK"]
        save_score == Max2(Min2(Div((save_pct - 70) * 40 * SS, bench.save_pct - 70),
                                50 * SS), 0)
        cs_score == Max2(Min2(Div((cs_pct - 20) * 30 * SS, bench.cs_pct - 20), 40 * SS), 0)
        ga_score == Min2(Max2(Div((150 - ga90) * 30 * SS, 150 - bench.ga90), 0), 40 * SS)
    IN 30 * SS + save_score + cs_score + ga_score

\* the three goalkeeper component scores summed onto 30, in 1/SS point
GkComponentSum(save_pct, cs_pct, ga90) ==
    LET bench == elite_benchmarks["GK"]
        save_score == Max2(Min2(Div((save_pct - 65) * 40 * SS, bench.save_pct - 65),
                                50 * SS), 0)
        cs_score == Max2(Min2(Div((cs_pct - 20) * 30 * SS, bench.cs_pct - 20), 40 * SS), 0)
        ga_score == Min2(Max2(Div((150 - ga90) * 30 * SS, 150 - bench.ga90), 0), 40 * SS)
    IN 30 * SS + save_score + cs_score + ga_score

\* PotentialCalculator._calculate_gk_performance
PotentialCalculator_calculate_gk_performance(player_data) ==
    LET save_pct == OrDefault(Get(player_data, "save_percentage", 70), 70)
        cs_pct == OrDefault(Get(player_data, "clean_sheet_percentage", 20), 20)
        ga90 == OrDefault(Get(player_data, "goals_against_per_90", 150), 150)
    IN Min2(Max2(GkComponentSum(save_pct, cs_pct, ga90), 40 * SS),
            performance_caps["GK"] * SS)

\* The threshold table with "or" in place of "and".
ConfidenceTier_either_condition(matches, minutes) ==
    IF matches >= 20 \/ minutes >= 1500 THEN "Very High"
    ELSE IF matches >= 15 \/ minutes >= 1000 THEN "High"
    ELSE IF matches >= 10 \/ minutes >= 600 THEN "Medium"
    ELSE IF matches >= 5 \/ minutes >= 300 THEN "Low"
    ELSE "Very Low"

\* The threshold table with the minutes comparison of the "High" row flipped.
ConfidenceTier_flipped_comparison(matches, minutes) ==
    IF matches >= 20 /\ minutes >= 1500 THEN "Very High"
    ELSE IF matches >= 15 /\ minutes <= 1000 THEN "High"
    ELSE IF matches >= 10 /\ minutes >= 600 THEN "Medium"
    ELSE IF matches >= 5 /\ minutes >= 300 THEN "Low"
    ELSE "Very Low"

\* the label of the threshold table, the same in both calculators
ConfidenceTier(matches, minutes) ==
    IF matches >= 20 /\ minutes >= 1500 THEN "Very High"
    ELSE IF matches >= 15 /\ minutes >= 1000 THEN "High"
    ELSE IF matches >= 10 /\ minutes >= 600 THEN "Medium"
    ELSE IF matches >= 5 /\ minutes >= 300 THEN "Low"
    ELSE "Very Low"

\* the weight (x100) the table gives to a label
TierWeight == [t \in {"Very High", "High", "Medium", "Low", "Very Low"} |->
                 CASE t = "Very High" -> 100 [] t = "High" -> 85 [] t = "Medium" -> 70
                   [] t = "Low" -> 50 [] OTHER -> 30]

\* PotentialCalculator._calculate_confidence_weight: <<weight x100, label>>
PotentialCalculator_calculate_confidence_weight(matches, minutes, position) ==
    LET label == ConfidenceTier(matches, minutes)
    IN <<TierWeight[label], label>>

\* The age adjustment with strict comparisons.
AgeAdjustedBaseline_strict_ages(position, age) ==
    LET baselines == [FW |-> 65, MF |-> 63, DF |-> 60, GK |-> 62]
        baseline == IF position \in DOMAIN baselines THEN baselines[position] ELSE 65
    IN baseline + (IF age < 16 THEN 10 ELSE IF age < 17 THEN 7 ELSE IF age < 18 THEN 5
                   ELSE IF age < 19 THEN 3 ELSE IF age < 20 THEN 1 ELSE 0)

\* position baseline plus the age adjustment, whole points
AgeAdjustedBaseline(position, age) ==
    LET baselines == [FW |-> 65, MF |-> 63, DF |-> 60, GK |-> 62]
        baseline == IF position \in DOMAIN baselines THEN baselines[position] ELSE 65
    IN baseline + (IF age <= 16 THEN 10 ELSE IF age <= 17 THEN 7 ELSE IF age <= 18 THEN 5
                   ELSE IF age <= 19 THEN 3 ELSE IF age <= 20 THEN 1 ELSE 0)

\* PotentialCalculator._calculate_baseline_expectation, whole points
PotentialCalculator_calculate_baseline_expectation(player_data) ==
    Min2(Max2(AgeAdjustedBaseline(Get(player_data, "position", "FW"),
                                  Get(player_data, "age", 18)), 40), 80)

\* PotentialCalculator._calculate_performance:
\* <<weighted_score, base_score, confidence_level>>
PotentialCalculator_calculate_performance(player_data) ==
    LET position == Get(player_data, "position", "FW")
        base_score == IF position = "GK"
                      THEN PotentialCalculator_calculate_gk_performance(player_data)
                      ELSE PotentialCalculator_calculate_outfield_performance(player_data)
        cw == PotentialCalculator_calculate_confidence_weight(
                  Get(player_data, "matches", 0), Get(player_data, "minutes", 0), position)
        baseline == PotentialCalculator_calculate_baseline_expectation(player_data)
        weighted_score == Div(cw[1] * base_score + (100 - cw[1]) * baseline * SS, 100)
    IN <<Min2(Max2(weighted_score, 30 * SS), 100 * SS), base_score, cw[2]>>

\* PotentialCalculator._calculate_elite_bonus, whole points
PotentialCalculator_calculate_elite_bonus(player_data, performance) ==
    LET goals == Get(player_data, "goals", 0)
        position == Get(player_data, "position", "FW")
    IN IF position = "FW" THEN
           IF goals >= 25 /\ performance >= 75 * SS THEN 6
           ELSE IF goals >= 20 /\ performance >= 70 * SS THEN 4
           ELSE IF goals >= 15 /\ performance >= 65 * SS THEN 3 ELSE 0
       ELSE IF position = "MF" THEN
           IF goals >= 12 /\ performance >= 70 * SS THEN 4
           ELSE IF goals >= 8 /\ performance >= 65 * SS THEN 2 ELSE 0
       ELSE IF position = "DF" THEN
           IF goals >= 8 /\ performance >= 65 * SS THEN 5
           ELSE IF goals >= 5 /\ performance >= 60 * SS THEN 3 ELSE 0
       ELSE 0

\* The fallback with a score that wears off with every record already scored
\* (state kept on the calculator between calls).
PotentialCalculator_fallback_development_potential_stateful(player_data) ==
    LET age_scores == (16 :> 85) @@ (17 :> 80) @@ (18 :> 75) @@ (19 :> 70) @@ (20 :> 65)
        age == Get(player_data, "age", 18)
        matches == Get(player_data, "matches", 0)
        age_score == IF age \in DOMAIN age_scores THEN age_scores[age] ELSE 60
        consistency_bonus == IF matches >= 20 THEN 10 ELSE IF matches >= 15 THEN 7
                             ELSE IF matches >= 10 THEN 4 ELSE IF matches >= 5 THEN 2 ELSE 0
    IN Min2(age_score + consistency_bonus - Len(scores), 100) * SS

\* PotentialCalculator._fallback_development_potential, in 1/SS point
PotentialCalculator_fallback_development_potential(player_data) ==
    LET age_scores == (16 :> 85) @@ (17 :> 80) @@ (18 :> 75) @@ (19 :> 70) @@ (20 :> 65)
        age == Get(player_data, "age", 18)
        matches == Get(player_data, "matches", 0)
        age_score == IF age \in DOMAIN age_scores THEN age_scores[age] ELSE 60
        consistency_bonus == IF matches >= 20 THEN 10 ELSE IF matches >= 15 THEN 7
                             ELSE IF matches >= 10 THEN 4 ELSE IF matches >= 5 THEN 2 ELSE 0
    IN Min2(age_score + consistency_bonus, 100) * SS

\* _extract_ml_features raises TypeError: arithmetic on a None count
PotentialCalculator_extract_ml_features_raises(player_data) ==
    \/ Get(player_data, "age", 18) = Null
    \/ Get(player_data, "matches", 1) = Null
    \/ Get(player_data, "minutes", 0) = Null
    \/ Get(player_data, "goals", 0) = Null
    \/ Get(player_data, "assists", 0) = Null

\* the try block of _predict_development_potential ends in the except clause
PotentialCalculator_prediction_fails(player_data, outcome) ==
    PotentialCalculator_extract_ml_features_raises(player_data) \/ outcome.raises

\* The except clause swallowing the failure without the fallback.
PotentialCalculator_predict_development_potential_no_fallback(player_data, model, outcome) ==
    IF model # "loaded" THEN PotentialCalculator_fallback_development_potential(player_data)
    ELSE Clip(outcome.value, 0, 100) * SS

\* PotentialCalculator._predict_development_potential.  model tells which of
\* self.model / self.scaler are set; outcome is what scaler.transform and
\* model.predict do on this record: raise, or return the prediction
\* outcome.value (whole points).
PotentialCalculator_predict_development_potential(player_data, model, outcome) ==
    IF model # "loaded" THEN PotentialCalculator_fallback_development_potential(player_data)
    ELSE IF PotentialCalculator_prediction_fails(player_data, outcome)
         THEN PotentialCalculator_fallback_development_potential(player_data)
         ELSE Clip(outcome.value, 0, 100) * SS

\* calculate_potential raises TypeError on this record: None is compared
\* with a number in the fallback or the sample penalty (matches), the
\* confidence table (minutes, reached from 5 matches), the baseline
\* expectation (age) or the elite bonus (goals, reached from 10 matches).
PotentialCalculator_calculate_potential_raises(player_data) ==
    LET matches == Get(player_data, "matches", 0)
    IN \/ matches = Null
       \/ Get(player_data, "age", 18) = Null
       \/ matches >= 5 /\ Get(player_data, "minutes", 0) = Null
       \/ /\ matches >= 10
          /\ Get(player_data, "position", "FW") \in {"FW", "MF", "DF"}
          /\ Get(player_data, "goals", 0) = Null

\* The sample penalty with every bracket twice as wide.
SamplePenalty_wide_brackets(matches) ==
    IF matches < 10 THEN -8 ELSE IF matches < 20 THEN -4 ELSE IF matches < 30 THEN -2 ELSE 0

\* The sample penalty with the sign slipped: small samples gain points.
SamplePenalty_sign_slip(matches) ==
    IF matches < 5 THEN 8 ELSE IF matches < 10 THEN 4 ELSE IF matches < 15 THEN 2 ELSE 0

\* the sample penalty of calculate_potential, whole points
SamplePenalty(matches) ==
    IF matches < 5 THEN -8 ELSE IF matches < 10 THEN -4 ELSE IF matches < 15 THEN -2 ELSE 0

\* The final bounds without the floor.
FinalBounds_no_floor(hybrid_potential) == Min2(hybrid_potential, 100 * SS)

\* the final bounds of calculate_potential: min(max(hybrid_potential, 30), 100)
FinalBounds(hybrid_potential) == Min2(Max2(hybrid_potential, 30 * SS), 100 * SS)

\* The soft cap as a hard clip.
SoftCapCompress_hard_clip(hybrid_potential, soft_cap) ==
    Min2(hybrid_potential, soft_cap * SS)

\* soft cap compression of calculate_potential
SoftCapCompress(hybrid_potential, soft_cap) ==
    IF hybrid_potential > soft_cap * SS
    THEN soft_cap * SS + Div((hybrid_potential - soft_cap * SS) * 3, 10)
    ELSE hybrid_potential

\* The elite bonus granted whatever the number of matches.
EliteBonusGate_ungated(matches, bonus) == bonus

\* "if matches >= 10" around the elite bonus in calculate_potential
EliteBonusGate(matches, bonus) == IF matches >= 10 THEN bonus ELSE 0

\* the soft cap of a position in PotentialCalculator.calculate_potential
PotentialCalculator_soft_cap(position) ==
    LET caps == [FW |-> 95, MF |-> 93, DF |-> 92, GK |-> 90]
    IN IF position \in DOMAIN caps THEN caps[position] ELSE 92

\* hybrid_potential of PotentialCalculator.calculate_potential before the
\* caps: the blend, the sample penalty and the elite bonus
PotentialCalculator_hybrid_potential(player_data, model, outcome) ==
    LET ml_development ==
            PotentialCalculator_predict_development_potential(player_data, model, outcome)
        weighted_performance == PotentialCalculator_calculate_performance(player_data)[1]
        matches == Get(player_data, "matches", 0)
        elite_bonus ==
            EliteBonusGate(matches,
                           PotentialCalculator_calculate_elite_bonus(player_data,
                                                                     weighted_performance))
    IN Div(weighted_performance * 70 + ml_development * 30, 100)
         + SamplePenalty(matches) * SS + elite_bonus * SS

\* PotentialCalculator.calculate_potential
PotentialCalculator_calculate_potential(player_data, model, outcome) ==
    LET ml_development ==
            PotentialCalculator_predict_development_potential(player_data, model, outcome)
        perf == PotentialCalculator_calculate_performance(player_data)
        weighted_performance == perf[1]
        matches == Get(player_data, "matches", 0)
        sample_penalty == SamplePenalty(matches)
        elite_bonus ==
            EliteBonusGate(matches,
                           PotentialCalculator_calculate_elite_bonus(player_data,
                                                                     weighted_performance))
        hybrid2 == PotentialCalculator_hybrid_potential(player_data, model, outcome)
        soft_cap == PotentialCalculator_soft_cap(Get(player_data, "position", "FW"))
        hybrid3 == SoftCapCompress(hybrid2, soft_cap)
        final_potential == FinalBounds(hybrid3)
    IN [predicted_potential |-> Round1(final_potential),
        performance_score |-> Round1(weighted_performance),
        base_performance_score |-> Round1(perf[2]),
        ml_development_score |-> Round1(ml_development),
        confidence |-> perf[3],
        elite_bonus |-> elite_bonus,
        sample_penalty |-> sample_penalty]

(***************************************************************************)
(* model/performance_calculator_fixed.py : HybridPerformanceCalculator    *)
(* The row is the same record; Goals, Minutes, xGPer90 ... are its        *)
(* goals, minutes, xg_per_90 ... fields.                                   *)
(***************************************************************************)
\* calculate_per90_stats(row): rates in thousandths, nineties in hundredths
Hybrid_calculate_per90_stats(row) ==
    LET minutes == row.minutes
        goals == row.goals
        assists == row.assists
        nineties == IF minutes > 0 THEN Div(minutes * 100, 90) ELSE 0
        goals_per_90 == IF nineties > 0 THEN Div(goals * 90 * 1000, minutes) ELSE 0
        assists_per_90 == IF nineties > 0 THEN Div(assists * 90 * 1000, minutes) ELSE 0
        xg0 == row.xg_per_90
        xa0 == row.xa_per_90
        xg_per_90 == IF xg0 = 0 /\ goals_per_90 > 0 /\ row.position # "GK"
                     THEN Div(goals_per_90 * 75, 100) ELSE xg0
        xa_per_90 == IF xa0 = 0 /\ assists_per_90 > 0 /\ row.position # "GK"
                     THEN Div(assists_per_90 * 75, 100) ELSE xa0
        matches == row.matches
    IN [goals_per_90 |-> goals_per_90,
        assists_per_90 |-> assists_per_90,
        xg_per_90 |-> xg_per_90,
        xa_per_90 |-> xa_per_90,
        nineties |-> nineties,
        minutes_per_match |-> IF matches > 0 THEN Div(minutes, matches) ELSE 0,
        matches |-> matches]

\* calculate_confidence_weight(matches, minutes, position): <<weight x10000, label>>
Hybrid_calculate_confidence_weight(matches, minutes, position) ==
    LET full_season == IF position \in DOMAIN elite_benchmarks
                       THEN elite_benchmarks[position].full_season_matches ELSE 22
        match_completeness == IF full_season > 0 THEN Div(matches * 10000, full_season)
                              ELSE 0
        expected_minutes == matches * 60
        minute_completeness == IF expected_minutes > 0
                               THEN Min2(Div(minutes * 10000, expected_minutes), 15000)
                               ELSE 0
        completeness == Div(match_completeness * 6 + minute_completeness * 4, 10)
        label == ConfidenceTier(matches, minutes)
        adjusted_weight == Div(TierWeight[label] * completeness, 100)
    IN <<Min2(Max2(adjusted_weight, 1000), 10000), label>>

\* HybridPerformanceCalculator._calculate_gk_performance
Hybrid_calculate_gk_performance(row) ==
    LET minutes == row.minutes
        base_score == GkComponentSum(row.save_percentage, row.clean_sheet_percentage,
                                     row.goals_against_per_90)
                        + (IF minutes >= 1800 THEN 5 * SS
                           ELSE IF minutes >= 900 THEN 3 * SS ELSE 0)
    IN IF minutes < 180 THEN 40 * SS
       ELSE Min2(Max2(base_score, 40 * SS), performance_caps["GK"] * SS)

\* calculate_base_performance(row, per90_stats)
Hybrid_calculate_base_performance(row, per90_stats) ==
    LET position == row.position
        base_score == OutfieldRatioSum(position, per90_stats.goals_per_90,
                                       per90_stats.xg_per_90, per90_stats.xa_per_90)
                        + calculate_volume_bonus(row.goals, position) * SS
                        + calculate_efficiency_bonus(per90_stats.goals_per_90, position) * SS
    IN IF position = "GK" THEN Hybrid_calculate_gk_performance(row)
       ELSE Min2(base_score, performance_caps[position] * SS)

\* HybridPerformanceCalculator._calculate_baseline_expectation, whole points
Hybrid_calculate_baseline_expectation(row) ==
    LET position == row.position
        matches == row.matches
        goals == row.goals
        hint == IF matches > 0
                THEN IF position = "FW" /\ goals * 10 > 3 * matches THEN 5
                     ELSE IF position = "MF" /\ goals * 100 > 15 * matches THEN 4
                     ELSE IF position = "DF" /\ goals * 100 > 8 * matches THEN 6
                     ELSE 0
                ELSE 0
    IN Min2(Max2(AgeAdjustedBaseline(position, row.age) + hint, 40), 80)

\* calculate_confidence_weighted_performance(row):
\* <<weighted_score, base_score, confidence_level>>
Hybrid_calculate_confidence_weighted_performance(row) ==
    LET per90_stats == Hybrid_calculate_per90_stats(row)
        base_score == Hybrid_calculate_base_performance(row, per90_stats)
        cw == Hybrid_calculate_confidence_weight(row.matches, row.minutes, row.position)
        baseline == Hybrid_calculate_baseline_expectation(row)
        weighted_score == Div(cw[1] * base_score + (10000 - cw[1]) * baseline * SS, 10000)
    IN <<Min2(Max2(weighted_score, 30 * SS), 100 * SS), base_score, cw[2]>>

\* HybridPerformanceCalculator._fallback_development_potential, in 1/SS point
Hybrid_fallback_development_potential(row) ==
    LET age == row.age
        matches == row.matches
        minutes == row.minutes
        age_score == IF age <= 16 THEN 85 ELSE IF age <= 17 THEN 80 ELSE IF age <= 18 THEN 75
                     ELSE IF age <= 19 THEN 70 ELSE IF age <= 20 THEN 65 ELSE 60
        consistency_bonus ==
            IF matches >= 20 /\ minutes >= 1500 THEN 10
            ELSE IF matches >= 15 /\ minutes >= 1000 THEN 7
            ELSE IF matches >= 10 /\ minutes >= 600 THEN 4
            ELSE IF matches >= 5 /\ minutes >= 300 THEN 2 ELSE 0
    IN Min2(age_score + consistency_bonus, 100) * SS

\* predict_development_potential(row)
Hybrid_predict_development_potential(row, model, outcome) ==
    IF model # "loaded" THEN Hybrid_fallback_development_potential(row)
    ELSE IF outcome.raises THEN Hybrid_fallback_development_potential(row)
         ELSE Clip(outcome.value, 0, 100) * SS

\* HybridPerformanceCalculator._calculate_elite_bonus, whole points
Hybrid_calculate_elite_bonus(row, performance) ==
    IF row.matches < 10 THEN 0
    ELSE PotentialCalculator_calculate_elite_bonus(row, performance)

\* the soft cap of a position in HybridPerformanceCalculator.calculate_potential
Hybrid_soft_cap(position) ==
    IF position = "FW" THEN 95 ELSE IF position = "MF" THEN 93
    ELSE IF position = "DF" THEN 92 ELSE 90

\* hybrid_potential of HybridPerformanceCalculator.calculate_potential before
\* the caps
Hybrid_hybrid_potential(row, model, outcome) ==
    LET ml_development == Hybrid_predict_development_potential(row, model, outcome)
        weighted_performance == Hybrid_calculate_confidence_weighted_performance(row)[1]
        matches == row.matches
        elite_bonus ==
            EliteBonusGate(matches, Hybrid_calculate_elite_bonus(row, weighted_performance))
    IN Div(weighted_performance * 70 + ml_development * 30, 100)
         + SamplePenalty(matches) * SS + elite_bonus * SS

\* HybridPerformanceCalculator.calculate_potential (the score fields of the
\* returned dict; per-90 outputs in thousandths, i.e. round(x, 3))
Hybrid_calculate_potential(row, model, outcome) ==
    LET ml_development == Hybrid_predict_development_potential(row, model, outcome)
        perf == Hybrid_calculate_confidence_weighted_performance(row)
        weighted_performance == perf[1]
        per90_stats == Hybrid_calculate_per90_stats(row)
        matches == row.matches
        sample_penalty == SamplePenalty(matches)
        elite_bonus ==
            EliteBonusGate(matches, Hybrid_calculate_elite_bonus(row, weighted_performance))
        hybrid2 == Hybrid_hybrid_potential(row, model, outcome)
        position == row.position
        hybrid3 == SoftCapCompress(hybrid2, Hybrid_soft_cap(position))
        final_potential == Round1(FinalBounds(hybrid3))
    IN [predicted_potential |-> final_potential,
        performance_score |-> Round1(weighted_performance),
        base_performance_score |-> Round1(perf[2]),
        ml_development_score |-> Round1(ml_development),
        confidence |-> perf[3],
        elite_bonus |-> elite_bonus,
        sample_penalty |-> sample_penalty,
        goals_per_90 |-> per90_stats.goals_per_90,
        xg_per_90 |-> per90_stats.xg_per_90,
        xa_per_90 |-> per90_stats.xa_per_90,
        confidence_weight |->
            Hybrid_calculate_confidence_weight(matches, row.minutes, position)[1]]

(***************************************************************************)
(* The calculators as a state machine.  A calculator object (of either    *)
(* class, with or without a loaded model and scaler) scores the rows of   *)
(* a table in order (backfill_scores.backfill for PotentialCalculator,    *)
(* calculate_all_potentials_hybrid for HybridPerformanceCalculator) and   *)
(* appends each bundle.  The table holds a record and the otherwise       *)
(* identical record with at least as many matches and minutes.            *)
(***************************************************************************)
Positions == {"FW", "MF", "DF", "GK"}
AgeValues == {15, 18, 22}
MatchesValues == {3, 7, 12, 25}
MinutesValues == {0, 400, 700, 1200, 2000}

\* outfield profiles: goals, assists, goals_per_90, xg_per_90, xa_per_90
OutfieldProfiles == {<<0, 0, 0, 0, 0>>, <<8, 2, 400, 0, 0>>, <<26, 5, 1200, 950, 300>>}
\* goalkeeper profiles: save %, clean sheet %, goals against per 90 (x100)
GkProfiles == {<<70, 20, 150>>, <<60, 10, 200>>, <<80, 40, 80>>}

PlayerRecord(pos, age, m, n, o, g) ==
    [position |-> pos, age |-> age, matches |-> m, minutes |-> n,
     goals |-> o[1], assists |-> o[2],
     goals_per_90 |-> o[3], xg_per_90 |-> o[4], xa_per_90 |-> o[5],
     save_percentage |-> g[1], clean_sheet_percentage |-> g[2],
     goals_against_per_90 |-> g[3]]

PlayerRecords ==
    {PlayerRecord(pos, age, m, n, o, <<70, 20, 150>>) :
        pos \in Positions \ {"GK"}, age \in AgeValues, m \in MatchesValues,
        n \in MinutesValues, o \in OutfieldProfiles}
    \cup
    {PlayerRecord("GK", age, m, n, <<0, 0, 0, 0, 0>>, g) :
        age \in AgeValues, m \in MatchesValues, n \in MinutesValues, g \in GkProfiles}

\* what scaler.transform / model.predict do on one record
ModelOutcomes ==
    {[raises |-> TRUE, value |-> 0], [raises |-> FALSE, value |-> -20],
     [raises |-> FALSE, value |-> 130]}

IdleProg ==
    /\ df = <<>>
    /\ stage = "idle"
    /\ passes = 0

\* the records of a table, as a set
RecordsOf(table) == {table[i] : i \in 1..Len(table)}

\* A new calculator object and a fresh batch.  The loaded artefacts are
\* deterministic: predictor gives their behaviour on each record.
NewBatch(outcomes) ==
    /\ predictor \in IF mlmodel = "loaded" THEN [RecordsOf(players) -> outcomes]
                     ELSE {<<>>}
    /\ scores = <<>>
    /\ warnings = {}
    /\ batch = "running"
    /\ written = <<>>
    /\ IdleProg
    /\ IdleDb
    /\ IdleAnalytics

InitScore ==
    /\ players \in {<<r, [r EXCEPT !.matches = m, !.minutes = n]>> :
                       r \in PlayerRecords, m \in MatchesValues, n \in MinutesValues}
    /\ players[1].matches <= players[2].matches
    /\ players[1].minutes <= players[2].minutes
    /\ calculator \in {"PotentialCalculator", "HybridPerformanceCalculator"}
    /\ mlmodel \in {"absent", "loaded"}
    /\ NewBatch(ModelOutcomes)

\* what the loaded artefacts do on the record about to be scored
OutcomeFor(player_data) ==
    IF mlmodel = "loaded" THEN predictor[player_data] ELSE [raises |-> TRUE, value |-> 0]

\* backfill_scores.backfill, the loop body: score the next row of the table.
\* An exception of calculate_potential leaves the loop and the function.
BackfillScore ==
    /\ calculator = "PotentialCalculator"
    /\ batch = "running"
    /\ Len(scores) < Len(players)
    /\ LET i == Len(scores) + 1
           player_data == players[i]
           outcome == OutcomeFor(player_data)
       IN /\ warnings' = IF /\ mlmodel = "loaded"
                            /\ PotentialCalculator_prediction_fails(player_data, outcome)
                         THEN warnings \cup {i} ELSE warnings
          /\ IF PotentialCalculator_calculate_potential_raises(player_data)
             THEN /\ batch' = "aborted"
                  /\ UNCHANGED scores
             ELSE /\ scores' = Append(scores,
                                      PotentialCalculator_calculate_potential(
                                          player_data, mlmodel, outcome))
                  /\ UNCHANGED batch
    /\ UNCHANGED <<df, stage, passes, players, calculator, mlmodel, predictor, written,
                   dbVars, analyticsVars>>

\* UPDATE players SET predicted_potential = ?, ... WHERE id = ?, for every
\* bundle of the list; the other columns of the row are left alone
WriteBack(rows, updates) ==
    [id \in DOMAIN rows |->
        IF id \in DOMAIN updates
        THEN [rows[id] EXCEPT !.predicted_potential = updates[id].predicted_potential]
        ELSE rows[id]]

\* backfill_scores.backfill after the loop: executemany(UPDATE ...) and commit
BackfillSave ==
    /\ calculator = "PotentialCalculator"
    /\ batch = "running"
    /\ Len(scores) = Len(players)
    /\ written' = scores
    /\ batch' = "saved"
    /\ db_players' = WriteBack(db_players, scores)
    /\ UNCHANGED <<df, stage, passes, players, calculator, mlmodel, predictor, scores,
                   warnings, response, analyticsVars>>

\* calculate_all_potentials_hybrid, the loop body
HybridScore ==
    /\ calculator = "HybridPerformanceCalculator"
    /\ batch = "running"
    /\ Len(scores) < Len(players)
    /\ LET i == Len(scores) + 1
           row == players[i]
           outcome == OutcomeFor(row)
       IN /\ warnings' = IF mlmodel = "loaded" /\ outcome.raises
                         THEN warnings \cup {i} ELSE warnings
          /\ scores' = Append(scores, Hybrid_calculate_potential(row, mlmodel, outcome))
    /\ UNCHANGED <<df, stage, passes, players, calculator, mlmodel, predictor, batch,
                   written, dbVars, analyticsVars>>

\* calculate_all_potentials_hybrid after the loop: the result columns are
\* assigned to the frame
HybridMerge ==
    /\ calculator = "HybridPerformanceCalculator"
    /\ batch = "running"
    /\ Len(scores) = Len(players)
    /\ written' = scores
    /\ batch' = "saved"
    /\ UNCHANGED <<df, stage, passes, players, calculator, mlmodel, predictor, scores,
                   warnings, dbVars, analyticsVars>>

NextScore ==
    \/ BackfillScore
    \/ BackfillSave
    \/ HybridScore
    \/ HybridMerge

SpecScore == InitScore /\ [][NextScore]_vars

(***************************************************************************)
(* Bulk recalculation over a table of three records read from the         *)
(* database: two complete records and a third one, which may be           *)
(* incomplete (a key absent from the dict, or a NULL column).  NULL       *)
(* columns are given to PotentialCalculator only: the frame rows of       *)
(* HybridPerformanceCalculator carry NaN, which is not modelled.          *)
(***************************************************************************)
\* the forward of model/test_danfa.py: 31 goals in 26 matches, 2328 minutes
danfa_2025 ==
    PlayerRecord("FW", 18, 26, 2328, <<31, 5, 1198, 950, 180>>, <<70, 20, 150>>)

\* a regular goalkeeper
keeper == PlayerRecord("GK", 22, 25, 2000, <<0, 0, 0, 0, 0>>, <<80, 40, 80>>)

BatchAges == 15..21
BatchPlayingTimes == {<<3, 400>>, <<12, 700>>, <<26, 2328>>}
BatchProfiles == {<<0, 0, 0, 0, 0>>, <<31, 5, 1198, 950, 180>>}

CompleteRecords ==
    {PlayerRecord("FW", age, t[1], t[2], o, <<70, 20, 150>>) :
        age \in BatchAges, t \in BatchPlayingTimes, o \in BatchProfiles}
    \cup
    {PlayerRecord(pos, age, t[1], t[2], o, <<80, 40, 80>>) :
        pos \in {"MF", "DF", "GK"}, age \in {16, 21}, t \in BatchPlayingTimes,
        o \in BatchProfiles}

NullableFields == {"age", "matches", "minutes", "goals", "position", "goals_per_90"}

\* the record without the key
WithoutKey(r, key) == [k \in DOMAIN r \ {key} |-> r[k]]

\* the record with None under the key
WithNull(r, key) == [r EXCEPT ![key] = IF key = "position" THEN NullPosition ELSE Null]

IncompleteRecords ==
    {WithoutKey(r, key) : r \in {q \in CompleteRecords :
                                    q.position = "FW" /\ q.age = 18 /\ q.goals > 0},
                          key \in NullableFields}
    \cup
    {WithNull(r, key) : r \in {q \in CompleteRecords :
                                  q.position = "FW" /\ q.age = 18 /\ q.goals > 0},
                        key \in NullableFields}

\* the sparse-data forward: age 19, 3 matches, 200 minutes, no goal, with
\* and without expected goals and assists
SparseForwards ==
    {PlayerRecord("FW", 19, 3, 200, o, <<70, 20, 150>>) :
        o \in {<<0, 0, 0, 0, 0>>, <<0, 2, 0, 950, 300>>}}

IsComplete(r) == r \in CompleteRecords \cup SparseForwards \cup {danfa_2025, keeper}

BatchOutcomes ==
    ModelOutcomes \cup {[raises |-> FALSE, value |-> 99], [raises |-> FALSE, value |-> 16]}

InitBatch ==
    /\ \E x \in CompleteRecords \cup IncompleteRecords \cup SparseForwards :
          players \in {<<x, danfa_2025, keeper>>, <<danfa_2025, x, keeper>>,
                       <<danfa_2025, keeper, x>>}
    /\ calculator \in {"PotentialCalculator", "HybridPerformanceCalculator"}
    /\ calculator = "HybridPerformanceCalculator"
          => \A i \in 1..Len(players) : IsComplete(players[i])
    /\ mlmodel \in {"absent", "no_model", "no_scaler", "loaded"}
    /\ NewBatch(BatchOutcomes)
    /\ mlmodel = "loaded" =>
          \A r \in RecordsOf(players) : predictor[r].value = 16 => r \in SparseForwards

SpecBatch == InitBatch /\ [][NextScore]_vars

Scored == 1..Len(scores)

(***************************************************************************)
(* Properties of the calculators.                                          *)
(***************************************************************************)

\* C5: every bundle a calculator returns has 30 <= predicted_potential <= 100,
\* whatever the trained predictor returned, values outside [0, 100] included.
PredictedPotentialBounded ==
    \A i \in Scored :
        /\ scores[i].predicted_potential >= 30 * SS
        /\ scores[i].predicted_potential <= 100 * SS

\* a loaded predictor returned a value below 0 and one above 100; the first
\* record's final potential sits on the floor
PredictedPotentialBoundedWitness ==
    /\ mlmodel = "loaded"
    /\ Len(scores) = 2
    /\ scores[1].ml_development_score = 0
    /\ scores[1].predicted_potential = 30 * SS
    /\ scores[2].ml_development_score = 100 * SS

\* the table holds two records that differ only in matches
DifferOnlyInMatches ==
    /\ players[1].minutes = players[2].minutes
    /\ players[1].matches < players[2].matches

\* the baseline prior of row i under the calculator in use, in 1/SS point
BaselinePrior(i) ==
    SS * (IF calculator = "PotentialCalculator"
          THEN PotentialCalculator_calculate_baseline_expectation(players[i])
          ELSE Hybrid_calculate_baseline_expectation(players[i]))

\* C6 as stated: of two otherwise identical records that differ only in
\* matches, the one with fewer matches gets the strictly lower final
\* potential, for every performance profile.
FewerMatchesStrictlyLower ==
    (Len(scores) = 2 /\ DifferOnlyInMatches)
        => scores[1].predicted_potential < scores[2].predicted_potential

\* C6 amended: with the fallback development heuristic in use (no model
\* loaded), a record with fewer than 5 matches gets a strictly lower final
\* potential than the otherwise identical record with at least 15 matches,
\* provided the base performance is not below the baseline prior.
FewerMatchesLowerAboveBaseline ==
    (/\ Len(scores) = 2
     /\ DifferOnlyInMatches
     /\ mlmodel = "absent"
     /\ players[1].matches < 5
     /\ players[2].matches >= 15
     /\ \A i \in 1..2 : scores[i].base_performance_score >= BaselinePrior(i))
        => scores[1].predicted_potential < scores[2].predicted_potential

\* an elite forward scored with 3 and with 25 matches by the fallback path
FewerMatchesLowerAboveBaselineWitness ==
    /\ Len(scores) = 2
    /\ DifferOnlyInMatches
    /\ mlmodel = "absent"
    /\ players[1].position = "FW"
    /\ players[1].matches = 3
    /\ players[2].matches = 25
    /\ scores[1].base_performance_score >= BaselinePrior(1)
    /\ scores[1].predicted_potential < scores[2].predicted_potential

\* C7 as stated: with minutes = 0, calculate_per90_stats returns zero for
\* every per-90 field and for nineties, also for rows whose xGPer90 or
\* xAPer90 column is not zero.
ZeroMinutesAllZero ==
    \A i \in Scored :
        (calculator = "HybridPerformanceCalculator" /\ players[i].minutes = 0)
            => LET stats == Hybrid_calculate_per90_stats(players[i])
               IN /\ stats.goals_per_90 = 0
                  /\ stats.assists_per_90 = 0
                  /\ stats.nineties = 0
                  /\ scores[i].xg_per_90 = 0
                  /\ scores[i].xa_per_90 = 0

\* the goalkeeper with save % 70, clean sheet % 20, goals against per 90 1.5
AtGkBaselines(i) ==
    /\ players[i].position = "GK"
    /\ players[i].save_percentage = 70
    /\ players[i].clean_sheet_percentage = 20
    /\ players[i].goals_against_per_90 = 150

\* C8 as stated: a goalkeeper at save % 70, clean sheet % 20 and goals
\* against per 90 of 1.5 gets a base score of exactly 30.
GkBaselineScoresThirty ==
    \A i \in Scored :
        AtGkBaselines(i) => scores[i].base_performance_score = 30 * SS

\* C8 amended: that goalkeeper gets a base score of 30 + (70 - 65)/(78 - 65)
\* * 40, 45.4 to one decimal, from PotentialCalculator (only the clean sheet
\* and goals-against components are zero, the save component is measured
\* from 65); HybridPerformanceCalculator returns 40 below 180 minutes and
\* otherwise the same 45.4 plus 3 from 900 minutes and plus 5 from 1800.
GkBaselineScore ==
    \A i \in Scored :
        AtGkBaselines(i) =>
            scores[i].base_performance_score =
                IF calculator = "PotentialCalculator" THEN 45400
                ELSE IF players[i].minutes < 180 THEN 40000
                ELSE IF players[i].minutes >= 1800 THEN 50400
                ELSE IF players[i].minutes >= 900 THEN 48400
                ELSE 45400

\* PotentialCalculator scored the goalkeeper at the three baselines
GkBaselineScoreWitness ==
    /\ calculator = "PotentialCalculator"
    /\ Len(scores) >= 1
    /\ AtGkBaselines(1)
    /\ scores[1].base_performance_score = 45400

\* C9: the confidence label follows the threshold table, both conditions of
\* a row required, and the confidence weight lies in [0.1, 1.0].
ConfidenceLabelTable ==
    \A i \in Scored :
        LET m == players[i].matches
            n == players[i].minutes
            label == scores[i].confidence
        IN /\ (label = "Very High") <=> (m >= 20 /\ n >= 1500)
           /\ (label = "High") <=> (~(m >= 20 /\ n >= 1500) /\ m >= 15 /\ n >= 1000)
           /\ (label = "Medium") <=>
                  (~(m >= 15 /\ n >= 1000) /\ m >= 10 /\ n >= 600)
           /\ (label = "Low") <=> (~(m >= 10 /\ n >= 600) /\ m >= 5 /\ n >= 300)
           /\ (label = "Very Low") <=> ~(m >= 5 /\ n >= 300)
           /\ IF calculator = "PotentialCalculator"
              THEN LET w == PotentialCalculator_calculate_confidence_weight(
                                m, n, players[i].position)[1]
                   IN w >= 10 /\ w <= 100
              ELSE /\ scores[i].confidence_weight >= 1000
                   /\ scores[i].confidence_weight <= 10000

\* a record with 25 matches but only 700 minutes is labelled Medium
ConfidenceLabelTableWitness ==
    /\ Len(scores) >= 1
    /\ players[1].matches = 25
    /\ players[1].minutes = 700
    /\ scores[1].confidence = "Medium"

\* C10: a record with at least the matches and at least the minutes of
\* another never gets a lower confidence tier.
ConfidenceTierMonotone ==
    LET rank == [l \in {"Very Low", "Low", "Medium", "High", "Very High"} |->
                    CASE l = "Very Low" -> 0 [] l = "Low" -> 1 [] l = "Medium" -> 2
                      [] l = "High" -> 3 [] l = "Very High" -> 4]
    IN (/\ Len(scores) = 2
        /\ players[1].matches <= players[2].matches
        /\ players[1].minutes <= players[2].minutes)
           => rank[scores[1].confidence] <= rank[scores[2].confidence]

\* a record of 25 matches and 400 minutes and the same with 1200 minutes
ConfidenceTierMonotoneWitness ==
    /\ Len(scores) = 2
    /\ players[1].matches = 25
    /\ players[1].minutes = 400
    /\ players[2].matches = 25
    /\ players[2].minutes = 1200
    /\ scores[1].confidence = "Low"
    /\ scores[2].confidence = "High"

\* the value of the fallback heuristic for row i under the calculator in use
FallbackFor(i) ==
    IF calculator = "PotentialCalculator"
    THEN PotentialCalculator_fallback_development_potential(players[i])
    ELSE Hybrid_fallback_development_potential(players[i])

FallbackAgeBuckets ==
    \A i \in Scored :
        (mlmodel # "loaded" /\ IsComplete(players[i])) =>
            LET age == players[i].age
                bucket == IF age <= 16 THEN 85 ELSE IF age = 17 THEN 80
                          ELSE IF age = 18 THEN 75 ELSE IF age = 19 THEN 70
                          ELSE IF age = 20 THEN 65 ELSE 60
            IN \E bonus \in 0..10 :
                  scores[i].ml_development_score = Min2(bucket + bonus, 100) * SS

\* the documented default of a field
FieldDefaults ==
    [position |-> "FW", age |-> 18, matches |-> 0, minutes |-> 0, goals |-> 0,
     assists |-> 0, goals_per_90 |-> 0, xg_per_90 |-> 0, xa_per_90 |-> 0,
     save_percentage |-> 70, clean_sheet_percentage |-> 20,
     goals_against_per_90 |-> 150]

\* the record with every missing field (absent key or None) set to its default
WithDefaults(r) ==
    [k \in DOMAIN FieldDefaults |->
        IF k \notin DOMAIN r THEN FieldDefaults[k]
        ELSE IF k = "position"
             THEN (IF r[k] = NullPosition THEN FieldDefaults[k] ELSE r[k])
             ELSE (IF r[k] = Null THEN FieldDefaults[k] ELSE r[k])]

\* C13 as stated: a record with a missing field (key absent or value null)
\* never makes calculate_potential raise and is scored as the record with
\* the documented defaults in place of the missing fields.
MissingFieldScoredWithDefault ==
    \A i \in 1..Len(players) :
        (calculator = "PotentialCalculator" /\ ~IsComplete(players[i])) =>
            /\ ~(batch = "aborted" /\ Len(scores) = i - 1)
            /\ i \in Scored =>
                  scores[i] = PotentialCalculator_calculate_potential(
                                  WithDefaults(players[i]), mlmodel,
                                  OutcomeFor(players[i]))

\* C14 as stated: a malformed record does not abort the bulk recalculation;
\* when the batch ends, every other record of the list has been scored and
\* its scores written, wherever the malformed record stands in the list.
BatchSurvivesMalformedRecord ==
    batch \in {"saved", "aborted"} =>
        Len(written) >= Cardinality({j \in 1..Len(players) : IsComplete(players[j])})

\* the hybrid value of row i before the caps, and the soft cap of its position
PreCap(i) ==
    IF calculator = "PotentialCalculator"
    THEN PotentialCalculator_hybrid_potential(players[i], mlmodel, OutcomeFor(players[i]))
    ELSE Hybrid_hybrid_potential(players[i], mlmodel, OutcomeFor(players[i]))

SoftCapOf(i) ==
    IF calculator = "PotentialCalculator"
    THEN PotentialCalculator_soft_cap(players[i].position)
    ELSE Hybrid_soft_cap(players[i].position)

\* C15: with cap the soft cap of the position, a pre-cap value h > cap becomes
\* cap + 0.3 * (h - cap) and a value h <= cap is unchanged; for two pre-cap
\* values h1 < h2 of the same position the compressed values satisfy c1 < c2
\* and the final potentials p1 <= p2.
SoftCapKeepsRankOrder ==
    \A i \in Scored : \A j \in Scored :
        (/\ IsComplete(players[i])
         /\ IsComplete(players[j])
         /\ players[i].position = players[j].position
         /\ PreCap(i) < PreCap(j)) =>
            LET cap == SoftCapOf(i) * SS
                c1 == SoftCapCompress(PreCap(i), SoftCapOf(i))
                c2 == SoftCapCompress(PreCap(j), SoftCapOf(j))
            IN /\ PreCap(i) <= cap => c1 = PreCap(i)
               /\ PreCap(i) > cap => 10 * (c1 - cap) = 3 * (PreCap(i) - cap)
               /\ c1 < c2
               /\ scores[i].predicted_potential <= scores[j].predicted_potential

\* two forwards above the soft cap of 95, at 95.2 and 95.5 before the cap,
\* end at 95.1 and 95.2
SoftCapKeepsRankOrderWitness ==
    \E i \in Scored : \E j \in Scored :
        /\ IsComplete(players[i])
        /\ IsComplete(players[j])
        /\ players[i].position = "FW"
        /\ players[j].position = "FW"
        /\ PreCap(i) = 95200
        /\ PreCap(j) = 95500
        /\ scores[i].predicted_potential = 95100
        /\ scores[j].predicted_potential = 95200

\* C16: the elite bonus is 0 for every record with fewer than 10 matches, so
\* a bundle with a non-zero elite bonus has a sample penalty of 0 or -2.
EliteBonusNeedsTenMatches ==
    \A i \in Scored :
        /\ Get(players[i], "matches", 0) < 10 => scores[i].elite_bonus = 0
        /\ scores[i].elite_bonus # 0 => scores[i].sample_penalty \in {0, -2}

\* a forward with 31 goals in 3 matches gets no bonus, the same forward with
\* 12 matches gets 6 with penalty -2, with 26 matches 6 with penalty 0
EliteBonusNeedsTenMatchesWitness ==
    /\ Len(scores) = 3
    /\ \E i \in Scored :
          /\ players[i].position = "FW"
          /\ Get(players[i], "goals", 0) = 31
          /\ Get(players[i], "matches", 0) = 3
          /\ scores[i].elite_bonus = 0
    /\ \E j \in Scored : scores[j].elite_bonus = 6 /\ scores[j].sample_penalty = 0

\* C17: the base performance score lies between 0 and the cap of the
\* position (FW 85, MF 83, DF 80, GK 82), however large a per-90 statistic
\* and whatever the goalkeeper's percentages are.
BasePerformanceWithinCap ==
    \A i \in Scored :
        LET position == Get(players[i], "position", "FW")
            position_cap == IF position \in DOMAIN performance_caps
                            THEN performance_caps[position] ELSE 85
        IN /\ scores[i].base_performance_score >= 0
           /\ scores[i].base_performance_score <= position_cap * SS

\* a forward with 1.198 goals per 90 (benchmark 0.65) sits on the cap of 85
\* and the goalkeeper on the cap of 82
BasePerformanceWithinCapWitness ==
    /\ \E i \in Scored :
          /\ IsComplete(players[i])
          /\ players[i].position = "FW"
          /\ players[i].goals_per_90 = 1198
          /\ scores[i].base_performance_score = 85 * SS
    /\ \E j \in Scored :
          /\ IsComplete(players[j])
          /\ players[j].position = "GK"
          /\ scores[j].base_performance_score = 82 * SS

\* the position default plus the age step of the documented table, clamped
\* to [40, 80], in 1/SS point; extra is added before the clamp
TablePrior(position, age, extra) ==
    LET default == CASE position = "FW" -> 65 [] position = "MF" -> 63
                     [] position = "DF" -> 60 [] position = "GK" -> 62
        step == IF age <= 16 THEN 10 ELSE IF age = 17 THEN 7 ELSE IF age = 18 THEN 5
                ELSE IF age = 19 THEN 3 ELSE IF age = 20 THEN 1 ELSE 0
    IN Min2(Max2(default + step + extra, 40), 80) * SS

GoalsPerMatchHint(r) ==
    IF r.matches <= 0 THEN 0
    ELSE IF r.position = "FW" /\ 10 * r.goals > 3 * r.matches THEN 5
    ELSE IF r.position = "MF" /\ 100 * r.goals > 15 * r.matches THEN 4
    ELSE IF r.position = "DF" /\ 100 * r.goals > 8 * r.matches THEN 6
    ELSE 0

PriorOf(i) ==
    SS * (IF calculator = "PotentialCalculator"
          THEN PotentialCalculator_calculate_baseline_expectation(players[i])
          ELSE Hybrid_calculate_baseline_expectation(players[i]))

\* |a - b|
Dist(a, b) == IF a >= b THEN a - b ELSE b - a

\* C21 as stated: a forward aged 19 with 3 matches, 200 minutes and 0 goals
\* is scored with sample penalty -8 and confidence "Low" or "Very Low"; its
\* final potential is strictly above the floor of 30, and its performance
\* score is pulled toward the baseline prior: it lies between the base
\* performance and the prior, no farther from the prior than from the base
\* performance.
SparseForwardScenario ==
    \A i \in Scored :
        players[i] \in SparseForwards =>
            /\ scores[i].sample_penalty = -8
            /\ scores[i].confidence \in {"Low", "Very Low"}
            /\ scores[i].predicted_potential > 30 * SS
            /\ scores[i].performance_score
                   >= Min2(scores[i].base_performance_score, PriorOf(i))
            /\ scores[i].performance_score
                   <= Max2(scores[i].base_performance_score, PriorOf(i))
            /\ Dist(scores[i].performance_score, PriorOf(i))
                   <= Dist(scores[i].performance_score, scores[i].base_performance_score)

\* C21 amended: the same, with the final potential strictly above the floor
\* of 30 provided the development score is at least 16; with the fallback
\* heuristic the development score is 70 and the final potential at least 46.
SparseForwardGivenDevelopment ==
    \A i \in Scored :
        players[i] \in SparseForwards =>
            /\ scores[i].sample_penalty = -8
            /\ scores[i].confidence \in {"Low", "Very Low"}
            /\ scores[i].ml_development_score >= 16 * SS =>
                  scores[i].predicted_potential > 30 * SS
            /\ (mlmodel # "loaded" \/ i \in warnings) =>
                  /\ scores[i].ml_development_score = 70 * SS
                  /\ scores[i].predicted_potential >= 46 * SS
            /\ scores[i].performance_score
                   >= Min2(scores[i].base_performance_score, PriorOf(i))
            /\ scores[i].performance_score
                   <= Max2(scores[i].base_performance_score, PriorOf(i))
            /\ Dist(scores[i].performance_score, PriorOf(i))
                   <= Dist(scores[i].performance_score, scores[i].base_performance_score)

\* the goalless sparse forward under a model predicting 16: the prior is 68,
\* the base performance 0, the performance score 0.7 * 68 = 47.6 and the
\* final potential 0.7 * 47.6 + 0.3 * 16 - 8 = 30.1
SparseForwardGivenDevelopmentWitness ==
    \E i \in Scored :
        /\ players[i] \in SparseForwards
        /\ calculator = "PotentialCalculator"
        /\ scores[i].base_performance_score = 0
        /\ scores[i].ml_development_score = 16 * SS
        /\ scores[i].performance_score = 47600
        /\ scores[i].predicted_potential = 30100

(***************************************************************************)
(* backend/analytics.py : calculate_similar_players                       *)
(* similarity_score is kept in whole points, rounded down; the order of   *)
(* the candidates is decided on the exact cosines.                        *)
(***************************************************************************)
feature_keys ==
    <<"predicted_potential", "performance_score", "age", "goals", "assists", "matches",
      "minutes", "goals_per_90", "assists_per_90">>

\* float(value) if value is not None else 0.0, for value = player.get(key, 0)
FeatureValue(player, key) ==
    LET value == Get(player, key, 0)
    IN IF value = Null THEN 0 ELSE value

\* the feature vector of a player
FeatureVector(player) ==
    [i \in 1..Len(feature_keys) |-> FeatureValue(player, feature_keys[i])]

\* the filter that keeps the target itself in the pool
SamePositionPlayers_keeps_target(target, pool) ==
    LET Same(p) == Get(p, "position", NullPosition) = Get(target, "position", NullPosition)
    IN SelectSeq(pool, Same)

\* same_position_players: the candidates with the target's position and
\* another id
SamePositionPlayers(target, pool) ==
    LET Same(p) == /\ Get(p, "position", NullPosition) = Get(target, "position", NullPosition)
                   /\ Get(p, "id", Null) # Get(target, "id", Null)
    IN SelectSeq(pool, Same)

\* col.min() and col.max() of column i of the candidates' feature matrix
ColMin(features, i) == SeqMin([k \in 1..Len(features) |-> features[k][i]], Len(features))
ColMax(features, i) == SeqMax([k \in 1..Len(features) |-> features[k][i]], Len(features))

\* max_val - min_val of column i; the column is scaled when it is positive
ColRange(features, i) == ColMax(features, i) - ColMin(features, i)

\* the product of the positive column ranges up to column n: the common
\* denominator of the normalised values
RECURSIVE RangeProduct(_, _)
RangeProduct(features, n) ==
    IF n = 0 THEN 1
    ELSE (IF ColRange(features, n) > 0 THEN ColRange(features, n) ELSE 1)
           * RangeProduct(features, n - 1)

\* The min-max scaling loop applied to one vector (a candidate's or the
\* target's), times the common denominator: (x - min) / (max - min) where
\* max > min, the raw value elsewhere.
Normalize(vector, features) ==
    LET denominator == RangeProduct(features, Len(feature_keys))
    IN [i \in 1..Len(feature_keys) |->
           IF ColRange(features, i) > 0
           THEN (vector[i] - ColMin(features, i)) * (denominator \div ColRange(features, i))
           ELSE vector[i] * denominator]

RECURSIVE DotUpTo(_, _, _)
DotUpTo(a, b, n) == IF n = 0 THEN 0 ELSE a[n] * b[n] + DotUpTo(a, b, n - 1)

\* the inner product of two vectors
Dot(a, b) == DotUpTo(a, b, Len(a))

\* cosine_similarity(a, b) * 100, rounded down to a whole point.  sklearn
\* divides each vector by its norm, a zero vector by 1.
CosineScore(a, b) ==
    LET dot == Dot(a, b)
        norms == Dot(a, a) * Dot(b, b)
    IN IF norms = 0 THEN 0
       ELSE IF dot >= 0
            THEN CHOOSE k \in 0..200 :
                    k * k * norms <= dot * dot * 10000
                    /\ (k + 1) * (k + 1) * norms > dot * dot * 10000
            ELSE -(CHOOSE k \in 0..200 :
                    k * k * norms >= dot * dot * 10000
                    /\ (k = 0 \/ (k - 1) * (k - 1) * norms < dot * dot * 10000))

\* cosine(target, a) >= cosine(target, b), exactly: the cosines are compared
\* as sign * dot^2 / |candidate|^2, the norm of the target being common
CosineAtLeast(target, a, b) ==
    LET Key(c, other) ==
            LET dot == Dot(target, c)
            IN IF Dot(c, c) = 0 THEN 0
               ELSE (IF dot >= 0 THEN 1 ELSE -1) * dot * dot
                      * (IF Dot(other, other) = 0 THEN 1 ELSE Dot(other, other))
    IN IF Dot(target, target) = 0 THEN TRUE
       ELSE IF Dot(a, a) = 0 \/ Dot(b, b) = 0
            THEN (IF Dot(a, a) = 0 THEN 0 ELSE Dot(target, a))
                   >= (IF Dot(b, b) = 0 THEN 0 ELSE Dot(target, b))
            ELSE Key(a, b) >= Key(b, a)

\* np.argsort(similarities)[::-1]: the orders of the candidates by
\* non-increasing similarity (the order among equal similarities is the
\* sort's choice)
ArgsortDescending(target, vectors) ==
    LET n == Len(vectors)
    IN {order \in [1..n -> 1..n] :
           /\ \A a, b \in 1..n : a # b => order[a] # order[b]
           /\ \A a, b \in 1..n :
                 a < b => CosineAtLeast(target, vectors[order[a]], vectors[order[b]])}

\* calculate_similar_players(target_player, all_players, top_n): the lists
\* it can return
calculate_similar_players(target, pool, n) ==
    LET same_position_players == SamePositionPlayers(target, pool)
        player_features == [k \in 1..Len(same_position_players) |->
                               FeatureVector(same_position_players[k])]
        target_features == Normalize(FeatureVector(target), player_features)
        normalized == [k \in 1..Len(player_features) |->
                          Normalize(player_features[k], player_features)]
        Entry(idx) ==
            [key \in DOMAIN same_position_players[idx] \cup {"similarity_score"} |->
                IF key = "similarity_score"
                THEN CosineScore(target_features, normalized[idx])
                ELSE same_position_players[idx][key]]
    IN IF Len(same_position_players) = 0 THEN {<<>>}
       ELSE {[k \in 1..Min2(n, Len(same_position_players)) |-> Entry(top_indices[k])] :
                top_indices \in ArgsortDescending(target_features, normalized)}

(***************************************************************************)
(* The scouting report asks for the players similar to a target.  The     *)
(* pool rows carry id, position, goals and assists; the other feature     *)
(* keys are absent from the dicts and read as 0.                          *)
(***************************************************************************)
MaxPlayers == 3
default_top_n == 5

GoalValues == 0..2
AssistValues == 0..1

\* the rows of a pool, without their id
PoolRows ==
    {[position |-> "FW", goals |-> g, assists |-> a] : g \in GoalValues, a \in AssistValues}
    \cup {[position |-> "MF", goals |-> 1, assists |-> 1]}

\* the row with its id
WithId(r, id) == [key \in DOMAIN r \cup {"id"} |-> IF key = "id" THEN id ELSE r[key]]

InitSimilar ==
    /\ \E n \in 0..MaxPlayers :
          all_players \in {[id \in 1..n |-> WithId(rows[id], id)] : rows \in [1..n -> PoolRows]}
    /\ target_player \in {all_players[id] : id \in 1..Len(all_players)}
                           \cup {WithId(r, 0) : r \in {q \in PoolRows : q.assists = 0}}
    /\ top_n \in {1, default_top_n}
    /\ similar_players = <<>>
    /\ request = "pending"
    /\ IdleProg
    /\ IdleScore
    /\ IdleDb

\* get_scouting_report: the call of calculate_similar_players
CalculateSimilarPlayers ==
    /\ request = "pending"
    /\ similar_players' \in calculate_similar_players(target_player, all_players, top_n)
    /\ request' = "done"
    /\ UNCHANGED <<df, stage, passes, players, calculator, mlmodel, predictor, scores,
                   warnings, batch, written, dbVars, target_player, all_players, top_n>>

NextSimilar == CalculateSimilarPlayers

SpecSimilar == InitSimilar /\ [][NextSimilar]_vars

(***************************************************************************)
(* Properties of calculate_similar_players.                                *)
(***************************************************************************)
\* the candidates of the pool with the target's position and another id
Candidates ==
    {id \in 1..Len(all_players) :
        /\ Get(all_players[id], "position", NullPosition)
             = Get(target_player, "position", NullPosition)
        /\ all_players[id].id # target_player.id}

\* the row of the pool an entry of the result was copied from
Returned(k) == all_players[similar_players[k].id]

\* C22: calculate_similar_players returns only candidates that have the
\* target's position and are not the target itself, at most top_n of them,
\* ordered by non-increasing similarity; with no same-position candidate it
\* returns the empty list.
SimilarPlayersFilteredAndRanked ==
    request = "done" =>
        /\ \A k \in 1..Len(similar_players) :
              /\ similar_players[k].id \in Candidates
              /\ similar_players[k].position = target_player.position
              /\ similar_players[k].id # target_player.id
              /\ \A key \in DOMAIN Returned(k) : similar_players[k][key] = Returned(k)[key]
        /\ Len(similar_players) <= top_n
        /\ \A a, b \in 1..Len(similar_players) :
              a < b => similar_players[a].similarity_score
                         >= similar_players[b].similarity_score
        /\ Candidates = {} => similar_players = <<>>

\* a forward outside the pool, a pool of two forwards around a midfielder:
\* both forwards are returned, the more similar one first
SimilarPlayersFilteredAndRankedWitness ==
    /\ request = "done"
    /\ top_n = default_top_n
    /\ Len(all_players) = 3
    /\ all_players[2].position = "MF"
    /\ target_player.id = 0
    /\ target_player.position = "FW"
    /\ Len(similar_players) = 2
    /\ similar_players[1].similarity_score > similar_players[2].similarity_score

\* C23: every similarity_score returned by calculate_similar_players lies in
\* [0, 100], also for a target whose feature values lie below the pool's
\* minimum of a column.
SimilarityScoreInRange ==
    request = "done" =>
        \A k \in 1..Len(similar_players) :
            /\ similar_players[k].similarity_score >= 0
            /\ similar_players[k].similarity_score <= 100

\* the candidates whose feature values are those of the target
Twins == {id \in Candidates : FeatureVector(all_players[id]) = FeatureVector(target_player)}

\* C24: a candidate whose feature values are identical to the target's gets
\* the similarity score 100, the best of the list, and no candidate scores
\* higher, whatever the feature values are (also when they are the pool's
\* minimum in every column).
IdenticalCandidateScoresHundred ==
    (request = "done" /\ Twins # {}) =>
        /\ Len(similar_players) > 0
        /\ similar_players[1].similarity_score = 100
        /\ \A k \in 1..Len(similar_players) :
              /\ similar_players[k].similarity_score <= 100
              /\ similar_players[k].id \in Twins => similar_players[k].similarity_score = 100

(***************************************************************************)
(* Further properties of the progression engine.                           *)
(***************************************************************************)
\* the current ratings of the rows of one season, in table order
SeasonDistribution(d, season) ==
    LET InSeason(r) == r.Season = season
        rows == SelectSeq(d, InSeason)
    IN [k \in 1..Len(rows) |-> rows[k].current_rating]

\* C25: the performance-tier modifier of a player-season is computed from the
\* row's percentile within the rating distribution of its own season only, so
\* rows of other seasons never change a row's performance_growth_modifier.
PerformanceTierFromOwnSeason ==
    stage \in {"next", "peak", "validate", "done"} =>
        \A i \in 1..Len(df) :
            df[i].performance_growth_modifier
                = get_performance_growth_modifier(df[i].current_rating,
                                                  SeasonDistribution(df, df[i].Season))

\* C28: after _validate_and_fix_progression every row satisfies
\* next_season_rating >= current_rating + 2, peak_potential >=
\* next_season_rating + 5 and peak_potential >= current_rating + 8: the final
\* clips of next to 85 and of peak to 94 undo no gap established before them.
MinimumGapsSurviveCeilings ==
    Validated =>
        \A i \in 1..Len(df) :
            /\ df[i].next_season_rating >= df[i].current_rating + 2 * RS
            /\ df[i].peak_potential >= df[i].next_season_rating + 5 * RS
            /\ df[i].peak_potential >= df[i].current_rating + 8 * RS

\* a row handed over with next above its ceiling and peak below current: next
\* is clipped to 85 and peak raised to 90
MinimumGapsSurviveCeilingsWitness ==
    /\ stage = "standalone"
    /\ passes = 1
    /\ \E i \in 1..Len(df) :
          /\ df[i].current_rating = 70 * RS
          /\ df[i].next_season_rating = 85 * RS
          /\ df[i].peak_potential = 90 * RS

\* C29: the sample-size penalty factor is non-decreasing in the matches
\* played, fractional counts of imputed seasons included, and it is 1.0
\* exactly when matches >= 6.  (Rows not flagged exceptional carry the factor
\* of get_sample_size_penalty unchanged.)
SamplePenaltyNonDecreasing ==
    stage # "penalties" /\ stage # "standalone" =>
        \A i, j \in 1..Len(df) :
            /\ (~df[i].is_exceptional /\ ~df[j].is_exceptional
                    /\ df[i].MP_raw <= df[j].MP_raw)
                  => df[i].sample_size_penalty <= df[j].sample_size_penalty
            /\ ~df[i].is_exceptional
                  => (df[i].sample_size_penalty = 1000 <=> df[i].MP_raw >= 60)

(***************************************************************************)
(* Further properties of PotentialCalculator.                              *)
(***************************************************************************)
\* the performance cap of the record's position, whole points
PositionCapOf(i) ==
    LET position == Get(players[i], "position", "FW")
    IN IF position \in DOMAIN performance_caps THEN performance_caps[position] ELSE 85

\* the soft cap PotentialCalculator applies to the record
BackendSoftCapOf(i) == PotentialCalculator_soft_cap(Get(players[i], "position", "FW"))

\* C30: in PotentialCalculator the weighted performance never exceeds
\* max(position cap, 80); the pre-cap hybrid value exceeds the soft cap only
\* for forwards, by at most 0.5; the returned predicted_potential never
\* exceeds 95.2.
PotentialNeverAbove95_2 ==
    calculator = "PotentialCalculator" =>
        \A i \in Scored :
            /\ scores[i].performance_score <= Max2(PositionCapOf(i), 80) * SS
            /\ PreCap(i) > BackendSoftCapOf(i) * SS =>
                  /\ Get(players[i], "position", "FW") = "FW"
                  /\ PreCap(i) - BackendSoftCapOf(i) * SS <= 500
            /\ scores[i].predicted_potential <= 95200

\* the forward of test_danfa.py under a model predicting 100: pre-cap value
\* 0.7 * 85 + 0.3 * 100 + 6 = 95.5, returned as 95 + 0.3 * 0.5 = 95.15 -> 95.2
PotentialNeverAbove95_2Witness ==
    /\ calculator = "PotentialCalculator"
    /\ \E i \in Scored :
          /\ players[i] = danfa_2025
          /\ PreCap(i) = 95500
          /\ scores[i].predicted_potential = 95200

(***************************************************************************)
(* backend/models.py : Database, with backend/import_data.py,             *)
(* backend/backfill_scores.py and the recalculate endpoint of             *)
(* backend/app.py.  A row of the players table carries player_name, the   *)
(* statistics columns (stats, a player record), predicted_potential (in   *)
(* 1/SS point, or Null) and is_best_potential; its id is its index.       *)
(***************************************************************************)
\* rows of the same player: WHERE player_name = ?
SamePlayer(rows, i) == {j \in 1..Len(rows) : rows[j].player_name = rows[i].player_name}

\* SELECT MAX(predicted_potential) ... GROUP BY player_name, for the player of
\* row i: the largest non-NULL value, NULL when there is none
MaxPotential(rows, i) ==
    LET values == {rows[j].predicted_potential : j \in SamePlayer(rows, i)} \ {Null}
    IN IF values = {} THEN Null
       ELSE CHOOSE m \in values : \A v \in values : v <= m

\* The flag update without the reset of the flags.
update_best_potential_flags_no_reset(rows) ==
    [i \in 1..Len(rows) |->
        [rows[i] EXCEPT !.is_best_potential =
            IF /\ rows[i].predicted_potential # Null
               /\ rows[i].predicted_potential = MaxPotential(rows, i)
            THEN 1 ELSE rows[i].is_best_potential]]

\* Database._update_best_potential_flags_internal: every flag is reset, then
\* set on the rows whose predicted_potential equals the maximum of their
\* player (a comparison with NULL selects no row)
update_best_potential_flags(rows) ==
    [i \in 1..Len(rows) |->
        [rows[i] EXCEPT !.is_best_potential =
            IF /\ rows[i].predicted_potential # Null
               /\ rows[i].predicted_potential = MaxPotential(rows, i)
            THEN 1 ELSE 0]]

NumDbRows == 2

PlayerNames == {"a", "b"}
\* predicted_potential of an imported row
ImportedPotentials == {Null, 60 * SS, 80 * SS}
\* the statistics of an imported row
DbRecords ==
    {danfa_2025, PlayerRecord("FW", 19, 3, 200, <<0, 0, 0, 0, 0>>, <<70, 20, 150>>)}
DbOutcomes == {[raises |-> TRUE, value |-> 0], [raises |-> FALSE, value |-> 130]}

\* the rows of a workbook, as insert_player stores them
ExcelRows ==
    {[player_name |-> name, stats |-> r, predicted_potential |-> p, is_best_potential |-> 0] :
        name \in PlayerNames, r \in DbRecords, p \in ImportedPotentials}

\* an empty database, and the model files the calculator will find
InitDb ==
    /\ db_players = <<>>
    /\ response = "none"
    /\ calculator = "PotentialCalculator"
    /\ mlmodel \in {"absent", "loaded"}
    /\ predictor \in IF mlmodel = "loaded" THEN [DbRecords -> DbOutcomes] ELSE {<<>>}
    /\ players = <<>>
    /\ scores = <<>>
    /\ warnings = {}
    /\ batch = "none"
    /\ written = <<>>
    /\ IdleProg
    /\ IdleAnalytics

\* import_from_excel: clear_all_data, bulk_insert_players of every sheet,
\* update_best_potential_flags.  The import replaces the whole table, so an
\* import into a filled database ends where the first import can end; the
\* first one is modelled.
ImportFromExcel ==
    /\ db_players = <<>>
    /\ batch # "running"
    /\ \E sheet \in [1..NumDbRows -> ExcelRows] :
          db_players' = update_best_potential_flags(sheet)
    /\ players' = <<>>
    /\ scores' = <<>>
    /\ warnings' = {}
    /\ batch' = "none"
    /\ written' = <<>>
    /\ UNCHANGED <<df, stage, passes, calculator, mlmodel, predictor, response,
                   analyticsVars>>

\* Database.update_best_potential_flags
UpdateBestPotentialFlags ==
    /\ db_players' = update_best_potential_flags(db_players)
    /\ UNCHANGED <<df, stage, passes, players, calculator, mlmodel, predictor, scores,
                   warnings, batch, written, response, analyticsVars>>

\* backfill_scores.backfill up to the loop: SELECT * FROM players
BackfillStart ==
    /\ batch # "running"
    /\ players' = [id \in 1..Len(db_players) |-> db_players[id].stats]
    /\ scores' = <<>>
    /\ warnings' = {}
    /\ batch' = "running"
    /\ written' = <<>>
    /\ UNCHANGED <<df, stage, passes, calculator, mlmodel, predictor, dbVars,
                   analyticsVars>>

\* app.recalculate_potential: 404 for an unknown id; for a known one the
\* scores are computed and db.update_player_scores, which Database does not
\* define, raises AttributeError: the handler answers 500 and writes nothing
RecalculatePotential ==
    /\ \E player_id \in 1..(NumDbRows + 1) :
          response' = IF player_id \in 1..Len(db_players) THEN "500" ELSE "404"
    /\ UNCHANGED <<df, stage, passes, players, calculator, mlmodel, predictor, scores,
                   warnings, batch, written, db_players, analyticsVars>>

NextDb ==
    \/ ImportFromExcel
    \/ UpdateBestPotentialFlags
    \/ BackfillStart
    \/ BackfillScore
    \/ BackfillSave
    \/ RecalculatePotential

SpecDb == InitDb /\ [][NextDb]_vars

(***************************************************************************)
(* Properties of the best-season flag.                                     *)
(***************************************************************************)
\* the rows flagged as their player's best season
Flagged(rows) == {i \in 1..Len(rows) : rows[i].is_best_potential = 1}

\* the flags of the table are exactly those of the maxima: a player with a
\* non-null potential has a flagged row, a flagged row holds the maximum of
\* its player, and a row below the maximum is not flagged
BestFlagsExact(rows) ==
    \A i \in 1..Len(rows) :
        /\ rows[i].predicted_potential # Null
              => \E j \in SamePlayer(rows, i) : j \in Flagged(rows)
        /\ i \in Flagged(rows)
              => /\ rows[i].predicted_potential # Null
                 /\ \A j \in SamePlayer(rows, i) :
                       rows[j].predicted_potential # Null
                          => rows[j].predicted_potential <= rows[i].predicted_potential
        /\ (\E j \in SamePlayer(rows, i) :
               /\ rows[i].predicted_potential # Null
               /\ rows[j].predicted_potential > rows[i].predicted_potential)
              => i \notin Flagged(rows)

\* C26: after Database.update_best_potential_flags (called directly, or at the
\* end of the import, the step that fills the empty table) every player with
\* a non-null predicted_potential has a flagged row, every flagged row holds
\* the maximum predicted_potential of its player, and the rows below the
\* maximum are not flagged.
FlagsExactAfterUpdate ==
    [][(UpdateBestPotentialFlags \/ (db_players = <<>> /\ db_players' # <<>>))
          => BestFlagsExact(db_players')]_vars

\* the flags repaired after a recalculation moved the best season of a
\* player from the second row to the first
FlagsExactAfterUpdateWitness ==
    /\ batch = "saved"
    /\ Len(db_players) = 2
    /\ db_players[1].player_name = db_players[2].player_name
    /\ db_players[1].predicted_potential = written[1].predicted_potential
    /\ db_players[2].predicted_potential = written[2].predicted_potential
    /\ db_players[1].predicted_potential > db_players[2].predicted_potential
    /\ db_players[1].is_best_potential = 1
    /\ db_players[2].is_best_potential = 0

\* C27: after any sequence of import, update_best_potential_flags and
\* backfill, every row with is_best_potential = 1 holds the maximum
\* predicted_potential among the rows of its player.
FlaggedRowsHoldMaximum ==
    \A i \in Flagged(db_players) :
        \A j \in SamePlayer(db_players, i) :
            db_players[j].predicted_potential <= db_players[i].predicted_potential

====
